---- MODULE Spec2Model ----
(***************************************************************************)
(* A model of CombinedShaderLanguageParser (csl_lib): the line-oriented    *)
(* traversal of a combined GLSL/HLSL source file, its include expansion,   *)
(* the GLSL-to-HLSL type conversion, the registration of hardcoded binding *)
(* indices and the allocation of automatic ones.                           *)
(*                                                                         *)
(* Text is a sequence of one-character strings.  Positions are 0-based, as *)
(* in std::string, so that the position arithmetic of the source can be    *)
(* copied unchanged.                                                       *)
(***************************************************************************)
EXTENDS Integers, Sequences, FiniteSets

----------------------------------------------------------------------------
(* std::string *)

\* std::string::npos: larger than every size and every position.
npos == 1000000

Min2(a, b) == IF a < b THEN a ELSE b

\* A local: the value e under the name that Body gives it.
With(e, Body(_)) == Body(e)

\* sText[i]
At(s, i) == s[i + 1]

\* sText.substr(pos, len), for pos <= size (substr throws for pos > size).
Substr(s, pos, len) == SubSeq(s, pos + 1, Min2(Len(s), pos + len))

\* sText.erase(pos, len)
Erase(s, pos, len) == SubSeq(s, 1, pos) \o SubSeq(s, Min2(Len(s), pos + len) + 1, Len(s))

\* sText.insert(pos, t)
Insert(s, pos, t) == SubSeq(s, 1, pos) \o t \o SubSeq(s, pos + 1, Len(s))

MatchAt(s, p, i) == i + Len(p) <= Len(s) /\ \A j \in 1..Len(p) : s[i + j] = p[j]

StartsWith(s, p) == MatchAt(s, p, 0)

EndsWith(s, p) == Len(p) <= Len(s) /\ MatchAt(s, p, Len(s) - Len(p))

\* sText.find(p, from): the first position >= from where p occurs, or npos.
RECURSIVE FindFrom(_, _, _)
FindFrom(s, p, from) ==
    IF from + Len(p) > Len(s) THEN npos
    ELSE IF MatchAt(s, p, from) THEN from
    ELSE FindFrom(s, p, from + 1)

Find(s, p) == FindFrom(s, p, 0)

\* The loop "for (; i < size; i++) if (s[i] != ' ') break;": the first
\* position >= i that holds no space, or size.
RECURSIVE SkipSpaces(_, _)
SkipSpaces(s, i) ==
    IF i >= Len(s) THEN i
    ELSE IF At(s, i) # " " THEN i
    ELSE SkipSpaces(s, i + 1)

\* The loop "for (; i < size; i++) if (s[i] == c) break;".
RECURSIVE SkipUntil(_, _, _)
SkipUntil(s, i, c) ==
    IF i >= Len(s) THEN i
    ELSE IF At(s, i) = c THEN i
    ELSE SkipUntil(s, i + 1, c)

DigitChars == <<"0", "1", "2", "3", "4", "5", "6", "7", "8", "9">>

IsDigit(c) == \E k \in 1..10 : DigitChars[k] = c

DigitValue(c) == (CHOOSE k \in 1..10 : DigitChars[k] = c) - 1

\* std::to_string(n)
RECURSIVE to_string(_)
to_string(n) ==
    IF n < 10 THEN <<DigitChars[n + 1]>>
    ELSE to_string(n \div 10) \o <<DigitChars[(n % 10) + 1]>>

----------------------------------------------------------------------------
(* Keywords *)

sGlslKeyword == <<"#","g","l","s","l">>
sHlslKeyword == <<"#","h","l","s","l">>
sBothKeyword == <<"#","b","o","t","h">>
sIncludeKeyword == <<"#","i","n","c","l","u","d","e">>
assignBindingIndexCharacter == "?"
sGlslBindingKeyword == <<"b","i","n","d","i","n","g">>
sHlslBindingKeyword == <<"r","e","g","i","s","t","e","r","(">>
sHlslRegisterSpaceKeyword == <<"s","p","a","c","e">>
sAdditionalPushConstantsKeyword == <<"#","a","d","d","i","t","i","o","n","a","l","_","p","u","s","h","_","c","o","n","s","t","a","n","t","s">>
sAdditionalRootConstantsKeyword == <<"#","a","d","d","i","t","i","o","n","a","l","_","r","o","o","t","_","c","o","n","s","t","a","n","t","s">>
sAdditionalShaderConstantsKeyword == <<"#","a","d","d","i","t","i","o","n","a","l","_","s","h","a","d","e","r","_","c","o","n","s","t","a","n","t","s">>
sPushConstantsAnchor == <<"l","a","y","o","u","t","(","p","u","s","h","_","c","o","n","s","t","a","n","t",")">>
sRootConstantsAnchor == <<"s","t","r","u","c","t"," ","R","o","o","t","C","o","n","s","t","a","n","t","s">>

NoError == "none"

----------------------------------------------------------------------------
(* replaceSubstring, convertGlslTypesToHlslTypes *)

\* The do-while loop of replaceSubstring, entered with iCurrentPosition.
RECURSIVE ReplaceLoop(_, _, _, _)
ReplaceLoop(sText, sReplaceFrom, sReplaceTo, iCurrentPosition) ==
    With(FindFrom(sText, sReplaceFrom, iCurrentPosition), LAMBDA p :
    IF p = npos THEN sText
    ELSE With(Insert(Erase(sText, p, Len(sReplaceFrom)), p, sReplaceTo), LAMBDA t :
         IF p + Len(sReplaceTo) < Len(t)
         THEN ReplaceLoop(t, sReplaceFrom, sReplaceTo, p + Len(sReplaceTo))
         ELSE t))

\* replaceSubstring that stops after the first occurrence.
replaceSubstring_FirstOccurrenceOnly(sText, sReplaceFrom, sReplaceTo) ==
    With(Find(sText, sReplaceFrom), LAMBDA p :
    IF p = npos THEN sText
    ELSE Insert(Erase(sText, p, Len(sReplaceFrom)), p, sReplaceTo))

replaceSubstring(sText, sReplaceFrom, sReplaceTo) ==
    ReplaceLoop(sText, sReplaceFrom, sReplaceTo, 0)

\* The type names replaced, in the order of the calls of replaceSubstring.
GlslTypes == <<<<"v","e","c","2">>, <<"v","e","c","3">>, <<"v","e","c","4">>,
               <<"m","a","t","2">>, <<"m","a","t","3">>, <<"m","a","t","4">>>>

HlslTypes == <<<<"f","l","o","a","t","2">>, <<"f","l","o","a","t","3">>,
               <<"f","l","o","a","t","4">>, <<"f","l","o","a","t","2","x","2">>,
               <<"f","l","o","a","t","3","x","3">>, <<"f","l","o","a","t","4","x","4">>>>

RECURSIVE ReplaceTypes(_, _)
ReplaceTypes(sGlslLine, k) ==
    IF k > Len(GlslTypes) THEN sGlslLine
    ELSE ReplaceTypes(replaceSubstring(sGlslLine, GlslTypes[k], HlslTypes[k]), k + 1)

sSharedKeyword == <<"s","h","a","r","e","d"," ">>

ReplaceShared(sGlslLine) ==
    IF StartsWith(sGlslLine, sSharedKeyword)
    THEN replaceSubstring(sGlslLine, sSharedKeyword, <<"g","r","o","u","p">> \o sSharedKeyword)
    ELSE sGlslLine

convertGlslTypesToHlslTypes(sGlslLine) == ReplaceShared(ReplaceTypes(sGlslLine, 1))

----------------------------------------------------------------------------
(* readNumberFromString, findGlslBindingIndex, findHlslRegisterInfo *)

\* The digits read by the loop of readNumberFromString.
RECURSIVE DigitRun(_, _)
DigitRun(sText, i) ==
    IF i >= Len(sText) THEN <<>>
    ELSE IF ~IsDigit(At(sText, i)) THEN <<>>
    ELSE <<At(sText, i)>> \o DigitRun(sText, i + 1)

RECURSIVE DigitsValue(_)
DigitsValue(d) ==
    IF d = <<>> THEN 0
    ELSE 10 * DigitsValue(SubSeq(d, 1, Len(d) - 1)) + DigitValue(d[Len(d)])

\* [err, value].  std::stoul throws for a value above ULONG_MAX (20 digits
\* or more here); the exception is caught and becomes an error message.
readNumberFromString(sText, iReadStartPosition) ==
    With(DigitRun(sText, iReadStartPosition), LAMBDA sValue :
    IF sValue = <<>> THEN [err |-> "no digit was found", value |-> 0]
    ELSE IF Len(sValue) >= 20
         THEN [err |-> "failed to convert string to integer", value |-> 0]
         ELSE [err |-> NoError, value |-> DigitsValue(sValue)])

\* [pos, err, reached]: pos is iCurrentPos as the function leaves it, and
\* reached says that onReachedBindingIndex was called (at pos).
findGlslBindingIndex(sSourceCode, iCurrentPos) ==
    With(FindFrom(sSourceCode, sGlslBindingKeyword, iCurrentPos), LAMBDA p0 :
    IF p0 = npos THEN [pos |-> npos, err |-> NoError, reached |-> FALSE]
    ELSE
    With(SkipUntil(sSourceCode, p0 + Len(sGlslBindingKeyword), "="), LAMBDA p1 :
    IF p1 >= Len(sSourceCode)
    THEN [pos |-> p1, err |-> "found binding but not found = after it", reached |-> FALSE]
    ELSE
    With(SkipSpaces(sSourceCode, p1 + 1), LAMBDA p2 :
    IF p2 >= Len(sSourceCode)
    THEN [pos |-> p2, err |-> "found binding but not found binding index after it",
          reached |-> FALSE]
    ELSE [pos |-> p2, err |-> NoError, reached |-> TRUE])))

\* The positions findHlslRegisterInfo visits when no callback stops it:
\* found (the keyword occurs), err (an error of the function itself, before
\* a position is reached), typePos and indexPos (where onReachedRegisterType
\* and onReachedRegisterIndex are called), hasSpace and spacePos (whether and
\* where onReachedRegisterSpaceIndex is called), closePos (the closing
\* bracket, the final iCurrentPos; npos when there is none).
NoRegisterInfo ==
    [found |-> FALSE, err |-> NoError, typePos |-> npos, indexPos |-> npos,
     hasSpace |-> FALSE, spacePos |-> npos, closePos |-> npos]

\* The register space between indexPos and the closing bracket, if any.
RegisterSpaceInfo(info, iRegisterSpacePos) ==
    IF iRegisterSpacePos # npos /\ iRegisterSpacePos < info.closePos
    THEN [info EXCEPT !.hasSpace = TRUE,
                      !.spacePos = iRegisterSpacePos + Len(sHlslRegisterSpaceKeyword)]
    ELSE info

findHlslRegisterInfo(sSourceCode, iCurrentPos) ==
    With(FindFrom(sSourceCode, sHlslBindingKeyword, iCurrentPos), LAMBDA p0 :
    IF p0 = npos THEN NoRegisterInfo
    ELSE
    With(SkipSpaces(sSourceCode, p0 + Len(sHlslBindingKeyword)), LAMBDA typePos :
    IF typePos >= Len(sSourceCode)
    THEN [NoRegisterInfo EXCEPT !.found = TRUE,
                                !.err = "found register( but not found register type"]
    ELSE
    With(SkipSpaces(sSourceCode, typePos + 1), LAMBDA indexPos :
    IF indexPos >= Len(sSourceCode)
    THEN [NoRegisterInfo EXCEPT !.found = TRUE, !.typePos = typePos,
                                !.err = "found register type but no register index"]
    ELSE RegisterSpaceInfo(
             [NoRegisterInfo EXCEPT !.found = TRUE, !.typePos = typePos,
                                    !.indexPos = indexPos,
                                    !.closePos = FindFrom(sSourceCode, <<")">>, indexPos)],
             FindFrom(sSourceCode, sHlslRegisterSpaceKeyword, indexPos)))))

\* sText[i] for i <= size: std::string gives the terminating zero at size.
CharAt(s, i) == IF i < Len(s) THEN At(s, i) ELSE "\\0"

----------------------------------------------------------------------------
(* addHardcodedBindingIndexIfFound *)

EmptyBindingIndicesInfo ==
    [usedGlslIndices |-> {}, usedHlslIndices |-> {}, bFoundBindingIndicesToAssign |-> FALSE]

\* usedHlslIndices[registerType][iRegisterSpace]; usedHlslIndices is kept as
\* the set of <<type, space, index>> of the nested maps.
UsedHlsl(info, registerType, iRegisterSpace) ==
    {t[3] : t \in {u \in info.usedHlslIndices : u[1] = registerType /\ u[2] = iRegisterSpace}}

\* The HLSL branch: [err, info].
addHardcodedHlsl(sCodeLine, info) ==
    With(findHlslRegisterInfo(sCodeLine, 0), LAMBDA g :
    IF ~g.found THEN [err |-> NoError, info |-> info]
    ELSE IF g.err # NoError THEN [err |-> g.err, info |-> info]
    ELSE IF At(sCodeLine, g.indexPos) = assignBindingIndexCharacter
    THEN \* iCurrentPos = npos: skip this line, assign an index later
         [err |-> NoError, info |-> [info EXCEPT !.bFoundBindingIndicesToAssign = TRUE]]
    ELSE
    With(readNumberFromString(sCodeLine, g.indexPos), LAMBDA idx :
    IF idx.err # NoError THEN [err |-> idx.err, info |-> info]
    ELSE IF g.hasSpace /\ CharAt(sCodeLine, g.spacePos) = assignBindingIndexCharacter
    THEN [err |-> "space? is not supported", info |-> info]
    ELSE
    With(IF g.hasSpace THEN readNumberFromString(sCodeLine, g.spacePos)
         ELSE [err |-> NoError, value |-> 0], LAMBDA space :
    IF space.err # NoError THEN [err |-> space.err, info |-> info]
    ELSE IF g.closePos = npos THEN [err |-> NoError, info |-> info]   \* found nothing
    ELSE [err |-> NoError,
          info |-> [info EXCEPT !.usedHlslIndices =
                       @ \cup {<<At(sCodeLine, g.typePos), space.value, idx.value>>}]])))

\* The GLSL branch: [err, info].  findGlslBindingIndex drops what its
\* callback returns, so a failed readNumberFromString is no error here.
addHardcodedGlsl(sCodeLine, info) ==
    With(findGlslBindingIndex(sCodeLine, 0), LAMBDA r :
    IF r.err # NoError THEN [err |-> r.err, info |-> info]
    ELSE IF ~r.reached THEN [err |-> NoError, info |-> info]
    ELSE IF At(sCodeLine, r.pos) = assignBindingIndexCharacter
    THEN [err |-> NoError, info |-> [info EXCEPT !.bFoundBindingIndicesToAssign = TRUE]]
    ELSE
    With(readNumberFromString(sCodeLine, r.pos), LAMBDA idx :
    IF idx.err # NoError THEN [err |-> NoError, info |-> info]
    ELSE [err |-> NoError,
          info |-> [info EXCEPT !.usedGlslIndices = @ \cup {idx.value}]]))

addHardcodedBindingIndexIfFound(bParseAsHlsl, sCodeLine, info) ==
    IF bParseAsHlsl THEN addHardcodedHlsl(sCodeLine, info)
    ELSE addHardcodedGlsl(sCodeLine, info)

----------------------------------------------------------------------------
(* assignBindingIndices *)

\* The loops that step an index over the used ones: the smallest index
\* that is >= n and not in used.
RECURSIVE NextUnused(_, _)
NextUnused(n, used) == IF n \in used THEN NextUnused(n + 1, used) ELSE n

\* The character at pos replaced by the decimal digits of n.
ReplaceWithIndex(sFullSourceCode, pos, n) ==
    Insert(Erase(sFullSourceCode, pos, 1), pos, to_string(n))

\* The do-while loop of the GLSL branch, entered with iCurrentPos and
\* iNextFreeBindingIndex: [err, text].
RECURSIVE AssignGlslLoop(_, _, _, _)
AssignGlslLoop(sFullSourceCode, iCurrentPos, iNextFreeBindingIndex, info) ==
    With(findGlslBindingIndex(sFullSourceCode, iCurrentPos), LAMBDA r :
    IF r.err # NoError THEN [err |-> r.err, text |-> sFullSourceCode]
    ELSE IF r.pos = npos THEN [err |-> NoError, text |-> sFullSourceCode]
    ELSE IF At(sFullSourceCode, r.pos) # assignBindingIndexCharacter
    THEN \* bSkipThisBinding
         IF r.pos < Len(sFullSourceCode)
         THEN AssignGlslLoop(sFullSourceCode, r.pos, iNextFreeBindingIndex, info)
         ELSE [err |-> NoError, text |-> sFullSourceCode]
    ELSE
    With(NextUnused(iNextFreeBindingIndex, info.usedGlslIndices), LAMBDA n :
    With(ReplaceWithIndex(sFullSourceCode, r.pos, n), LAMBDA t :
    IF r.pos < Len(t) THEN AssignGlslLoop(t, r.pos, n + 1, info)
    ELSE [err |-> NoError, text |-> t])))

HlslRegisterTypes == {"t", "s", "u", "b"}

\* The register spaces nextFreeBindingIndex is initialized for.
HlslRegisterSpaces == 0..8

\* The do-while loop of the HLSL branch, entered with iCurrentPos and
\* nextFreeBindingIndex: [err, text].
RECURSIVE AssignHlslLoop(_, _, _, _)
AssignHlslLoop(sFullSourceCode, iCurrentPos, nextFreeBindingIndex, info) ==
    With(findHlslRegisterInfo(sFullSourceCode, iCurrentPos), LAMBDA g :
    IF ~g.found THEN [err |-> NoError, text |-> sFullSourceCode]
    ELSE IF g.err # NoError THEN [err |-> g.err, text |-> sFullSourceCode]
    ELSE
    With(At(sFullSourceCode, g.indexPos) # assignBindingIndexCharacter,
         LAMBDA bSkipCurrentRegister :
    IF g.hasSpace /\ ~bSkipCurrentRegister
       /\ CharAt(sFullSourceCode, g.spacePos) = assignBindingIndexCharacter
    THEN [err |-> "space? is not supported", text |-> sFullSourceCode]
    ELSE
    With(IF g.hasSpace /\ ~bSkipCurrentRegister
         THEN readNumberFromString(sFullSourceCode, g.spacePos)
         ELSE [err |-> NoError, value |-> 0], LAMBDA space :
    IF space.err # NoError THEN [err |-> space.err, text |-> sFullSourceCode]
    ELSE IF g.closePos = npos
    THEN [err |-> NoError, text |-> sFullSourceCode]   \* found nothing
    ELSE IF bSkipCurrentRegister
    THEN IF g.closePos < Len(sFullSourceCode)
         THEN AssignHlslLoop(sFullSourceCode, g.closePos, nextFreeBindingIndex, info)
         ELSE [err |-> NoError, text |-> sFullSourceCode]
    ELSE IF At(sFullSourceCode, g.typePos) \notin HlslRegisterTypes
    THEN [err |-> "found unexpected register type", text |-> sFullSourceCode]
    ELSE IF space.value \notin HlslRegisterSpaces
    THEN [err |-> "found unexpected register space", text |-> sFullSourceCode]
    ELSE
    With(<<At(sFullSourceCode, g.typePos), space.value>>, LAMBDA k :
    With(NextUnused(nextFreeBindingIndex[k], UsedHlsl(info, k[1], k[2])), LAMBDA n :
    With(ReplaceWithIndex(sFullSourceCode, g.indexPos, n), LAMBDA t :
    IF g.indexPos < Len(t)
    THEN AssignHlslLoop(t, g.indexPos, [nextFreeBindingIndex EXCEPT ![k] = n + 1], info)
    ELSE [err |-> NoError, text |-> t]))))))

\* assignBindingIndices with the GLSL counter started at 0 whatever the
\* base index is.
assignBindingIndices_CounterFromZero(bParseAsHlsl, sFullSourceCode, info, iBaseAutomaticBindingIndex) ==
    IF bParseAsHlsl
    THEN AssignHlslLoop(sFullSourceCode, 0,
                        [k \in HlslRegisterTypes \X HlslRegisterSpaces |-> 0], info)
    ELSE AssignGlslLoop(sFullSourceCode, 0, 0, info)

\* assignBindingIndices with the GLSL counter started one past the base
\* index.
assignBindingIndices_CounterPastBase(bParseAsHlsl, sFullSourceCode, info, iBaseAutomaticBindingIndex) ==
    IF bParseAsHlsl
    THEN AssignHlslLoop(sFullSourceCode, 0,
                        [k \in HlslRegisterTypes \X HlslRegisterSpaces |-> 0], info)
    ELSE AssignGlslLoop(sFullSourceCode, 0, iBaseAutomaticBindingIndex + 1, info)

\* [err, text]
assignBindingIndices(bParseAsHlsl, sFullSourceCode, info, iBaseAutomaticBindingIndex) ==
    IF bParseAsHlsl
    THEN AssignHlslLoop(sFullSourceCode, 0,
                        [k \in HlslRegisterTypes \X HlslRegisterSpaces |-> 0], info)
    ELSE AssignGlslLoop(sFullSourceCode, 0, iBaseAutomaticBindingIndex, info)

----------------------------------------------------------------------------
(* finalizeParsingResults *)

\* InsertConstants with the loop running from the first entry to the last.
RECURSIVE InsertConstants_ForwardLoop(_, _, _)
InsertConstants_ForwardLoop(sFullParsedSourceCode, pos, vAdditionalShaderConstants) ==
    IF vAdditionalShaderConstants = <<>> THEN sFullParsedSourceCode
    ELSE With(vAdditionalShaderConstants[1], LAMBDA c :
         InsertConstants_ForwardLoop(
             Insert(sFullParsedSourceCode, pos,
                    IF EndsWith(c, <<"\n">>) THEN c ELSE c \o <<"\n">>),
             pos,
             Tail(vAdditionalShaderConstants)))

\* The reverse loop of std::string::insert at one position: the entries,
\* each ended by a newline, land at pos in the order of the vector.
RECURSIVE InsertConstants(_, _, _)
InsertConstants(sFullParsedSourceCode, pos, vAdditionalShaderConstants) ==
    IF vAdditionalShaderConstants = <<>> THEN sFullParsedSourceCode
    ELSE With(vAdditionalShaderConstants[Len(vAdditionalShaderConstants)], LAMBDA c :
         InsertConstants(
             Insert(sFullParsedSourceCode, pos,
                    IF EndsWith(c, <<"\n">>) THEN c ELSE c \o <<"\n">>),
             pos,
             SubSeq(vAdditionalShaderConstants, 1, Len(vAdditionalShaderConstants) - 1)))

\* The second half of finalizeParsingResults: [err, path, text].
AssignIfFound(pathToShaderSourceFile, bParseAsHlsl, info, sFullParsedSourceCode, iBaseAutomaticBindingIndex) ==
    IF ~info.bFoundBindingIndicesToAssign
    THEN [err |-> NoError, path |-> pathToShaderSourceFile, text |-> sFullParsedSourceCode]
    ELSE With(assignBindingIndices(bParseAsHlsl, sFullParsedSourceCode, info,
                                   iBaseAutomaticBindingIndex), LAMBDA assigned :
         IF assigned.err # NoError
         THEN [err |-> assigned.err, path |-> pathToShaderSourceFile, text |-> <<>>]
         ELSE [err |-> NoError, path |-> pathToShaderSourceFile, text |-> assigned.text])

\* finalizeParsingResults that leaves the text as it is when the anchor of
\* the additional constants is not found.
finalizeParsingResults_WithoutAnchorError(pathToShaderSourceFile, bParseAsHlsl, info, sFullParsedSourceCode, vAdditionalShaderConstants, iBaseAutomaticBindingIndex) ==
    With(IF vAdditionalShaderConstants = <<>> THEN npos
         ELSE Find(sFullParsedSourceCode,
                   IF bParseAsHlsl THEN sRootConstantsAnchor ELSE sPushConstantsAnchor),
         LAMBDA iShaderConstantsStartPos :
    With(IF iShaderConstantsStartPos = npos THEN npos
         ELSE FindFrom(sFullParsedSourceCode, <<"}">>, iShaderConstantsStartPos),
         LAMBDA iShaderConstantsEndPos :
    IF iShaderConstantsStartPos # npos /\ iShaderConstantsEndPos = npos
    THEN [err |-> "expected to find a closing bracket after push constants definition",
          path |-> pathToShaderSourceFile, text |-> <<>>]
    ELSE AssignIfFound(pathToShaderSourceFile, bParseAsHlsl, info,
                       IF iShaderConstantsStartPos = npos THEN sFullParsedSourceCode
                       ELSE InsertConstants(sFullParsedSourceCode, iShaderConstantsEndPos,
                                            vAdditionalShaderConstants),
                       iBaseAutomaticBindingIndex)))

\* finalizeParsingResults with the indices assigned before the additional
\* constants are inserted.
finalizeParsingResults_AssignFirst(pathToShaderSourceFile, bParseAsHlsl, info, sFullParsedSourceCode, vAdditionalShaderConstants, iBaseAutomaticBindingIndex) ==
    With(AssignIfFound(pathToShaderSourceFile, bParseAsHlsl, info, sFullParsedSourceCode,
                       iBaseAutomaticBindingIndex), LAMBDA assigned :
    IF assigned.err # NoError \/ vAdditionalShaderConstants = <<>> THEN assigned
    ELSE
    With(Find(assigned.text,
              IF bParseAsHlsl THEN sRootConstantsAnchor ELSE sPushConstantsAnchor),
         LAMBDA iShaderConstantsStartPos :
    IF iShaderConstantsStartPos = npos
    THEN [err |-> "initial push constants layout was not found",
          path |-> <<"", assigned.text>>, text |-> <<>>]
    ELSE
    With(FindFrom(assigned.text, <<"}">>, iShaderConstantsStartPos),
         LAMBDA iShaderConstantsEndPos :
    IF iShaderConstantsEndPos = npos
    THEN [err |-> "expected to find a closing bracket after push constants definition",
          path |-> pathToShaderSourceFile, text |-> <<>>]
    ELSE [assigned EXCEPT !.text = InsertConstants(assigned.text, iShaderConstantsEndPos,
                                                   vAdditionalShaderConstants)])))

\* [err, path, text]: path is the pathToErrorFile of a returned Error.
finalizeParsingResults(pathToShaderSourceFile, bParseAsHlsl, info, sFullParsedSourceCode, vAdditionalShaderConstants, iBaseAutomaticBindingIndex) ==
    With(IF vAdditionalShaderConstants = <<>> THEN 0
         ELSE Find(sFullParsedSourceCode,
                   IF bParseAsHlsl THEN sRootConstantsAnchor ELSE sPushConstantsAnchor),
         LAMBDA iShaderConstantsStartPos :
    IF iShaderConstantsStartPos = npos
    THEN \* the Error is constructed with the source text as its path
         [err |-> "initial push constants layout was not found",
          path |-> <<"", sFullParsedSourceCode>>, text |-> <<>>]
    ELSE
    With(IF vAdditionalShaderConstants = <<>> THEN 0
         ELSE FindFrom(sFullParsedSourceCode, <<"}">>, iShaderConstantsStartPos),
         LAMBDA iShaderConstantsEndPos :
    IF iShaderConstantsEndPos = npos
    THEN [err |-> "expected to find a closing bracket after push constants definition",
          path |-> pathToShaderSourceFile, text |-> <<>>]
    ELSE AssignIfFound(pathToShaderSourceFile, bParseAsHlsl, info,
                       InsertConstants(sFullParsedSourceCode, iShaderConstantsEndPos,
                                       vAdditionalShaderConstants),
                       iBaseAutomaticBindingIndex)))

----------------------------------------------------------------------------
(* processKeywordCode *)

\* The position and the text of the first keyword of vKeywords, in list
\* order, that occurs in the line: [pos, sKeyword], pos = npos when none.
RECURSIVE FindKeyword(_, _)
FindKeyword(vKeywords, sLineBuffer) ==
    IF vKeywords = <<>> THEN [pos |-> npos, sKeyword |-> <<>>]
    ELSE With(Find(sLineBuffer, Head(vKeywords)), LAMBDA p :
         IF p # npos THEN [pos |-> p, sKeyword |-> Head(vKeywords)]
         ELSE FindKeyword(Tail(vKeywords), sLineBuffer))

\* The body loop, about to read line i of the file with iNestedScopeCount:
\* texts are the lines handed to processContent, closed says that the
\* terminating bracket was read, next is the first unread line and
\* sLineBuffer the last line read.
RECURSIVE BodyLoop(_, _, _, _, _)
BodyLoop(lines, i, iNestedScopeCount, texts, sLineBuffer) ==
    IF i > Len(lines)
    THEN [texts |-> texts, closed |-> FALSE, next |-> i, sLineBuffer |-> sLineBuffer]
    ELSE IF Find(lines[i], <<"{">>) # npos
    THEN BodyLoop(lines, i + 1, iNestedScopeCount + 1, Append(texts, lines[i]), lines[i])
    ELSE IF Find(lines[i], <<"}">>) = npos
    THEN BodyLoop(lines, i + 1, iNestedScopeCount, Append(texts, lines[i]), lines[i])
    ELSE IF iNestedScopeCount = 0
    THEN [texts |-> texts, closed |-> TRUE, next |-> i + 1, sLineBuffer |-> lines[i]]
    ELSE BodyLoop(lines, i + 1, iNestedScopeCount - 1, Append(texts, lines[i]), lines[i])

\* What processKeywordCode gives when no keyword occurs in the line.
KeywordNotFound(sLineBuffer, next) ==
    [found |-> FALSE, sKeyword |-> <<>>, texts |-> <<>>, err |-> NoError,
     next |-> next, sLineBuffer |-> sLineBuffer]

\* The body of a block whose first line is line first of the file.
ProcessBody(sKeyword, lines, first, sLineBuffer) ==
    With(BodyLoop(lines, first, 0, <<>>, sLineBuffer), LAMBDA b :
    [found |-> TRUE, sKeyword |-> sKeyword, texts |-> b.texts,
     err |-> IF b.closed THEN NoError
             ELSE "reached unexpected end of file while processing keyword",
     next |-> b.next, sLineBuffer |-> b.sLineBuffer])

\* The line holds the keyword k.sKeyword at k.pos; start is 1 when the
\* first character after the keyword and its spaces is the bracket that
\* starts a block on this line, 2 when the next line has to start the
\* block, 3 when the file has no next line, 0 for a single line of code.
ProcessKeywordAt(k, start, sLineBuffer, lines, next) ==
    CASE start = 0 ->
             [KeywordNotFound(sLineBuffer, next) EXCEPT
                 !.found = TRUE, !.sKeyword = k.sKeyword,
                 !.texts = <<SubSeq(sLineBuffer,
                                    SkipSpaces(sLineBuffer, k.pos + Len(k.sKeyword) + 1) + 1,
                                    Len(sLineBuffer))>>]
      [] start = 1 -> ProcessBody(k.sKeyword, lines, next, sLineBuffer)
      [] start = 3 ->
             [KeywordNotFound(<<>>, next) EXCEPT
                 !.found = TRUE, !.sKeyword = k.sKeyword,
                 !.err = "unexpected end of file while processing keyword"]
      [] start = 2 ->
             IF StartsWith(lines[next], <<"{">>)
             THEN ProcessBody(k.sKeyword, lines, next + 1, lines[next])
             ELSE [KeywordNotFound(lines[next], next + 1) EXCEPT
                      !.found = TRUE, !.sKeyword = k.sKeyword,
                      !.err = "expected to find a curly bracket"]

\* processKeywordCode without its callback: found (a keyword occurs),
\* sKeyword, texts (what processContent is called with, in order), err (the
\* Error of the function itself, returned once processContent has seen
\* texts without an error of its own), next (the first line of the file
\* not read yet) and sLineBuffer (the line buffer as it is left).
processKeywordCode(vKeywords, sLineBuffer, lines, next) ==
    With(FindKeyword(vKeywords, sLineBuffer), LAMBDA k :
    IF k.pos = npos THEN KeywordNotFound(sLineBuffer, next)
    ELSE With(SkipSpaces(sLineBuffer, k.pos + Len(k.sKeyword)), LAMBDA i :
         ProcessKeywordAt(
             k,
             IF i < Len(sLineBuffer) /\ At(sLineBuffer, i) = "{" THEN 1
             ELSE IF SkipSpaces(sLineBuffer, k.pos + Len(k.sKeyword) + 1)
                     < Len(sLineBuffer) - 1 THEN 0
             ELSE IF next > Len(lines) THEN 3
             ELSE 2,
             sLineBuffer, lines, next)))

----------------------------------------------------------------------------
(* processMixedLanguageLine *)

\* a - b in size_t: a difference below zero wraps to a huge value.
SizeSub(a, b) == IF a >= b THEN a - b ELSE npos

\* One call of processContent, or the end of the function by an Error or
\* by the std::out_of_range that substr throws for a position past the end.
ContentItem(sKeyword, sLineBuffer, pos, len) ==
    IF pos > Len(sLineBuffer) THEN [kind |-> "exception", sKeyword |-> sKeyword, text |-> <<>>]
    ELSE [kind |-> "text", sKeyword |-> sKeyword, text |-> Substr(sLineBuffer, pos, len)]

NoCodeBetweenKeywords ==
    [kind |-> "error", sKeyword |-> <<>>, text |-> <<>>]

TaggedSection(sLineBuffer, sKeyword) ==
    With(Find(sLineBuffer, sKeyword), LAMBDA p :
    [sKeyword |-> sKeyword, iKeywordStartPos |-> p, iCodeStartPos |-> p + Len(sKeyword) + 1])

\* The tagged sections of the keywords that occur in the line.
TaggedSections(sLineBuffer) ==
    {t \in {TaggedSection(sLineBuffer, kw) : kw \in {sHlslKeyword, sGlslKeyword, sBothKeyword}} :
        t.iKeywordStartPos # npos}

\* std::sort by iKeywordStartPos.
SortSections(sections) ==
    [i \in 1..Cardinality(sections) |->
        CHOOSE t \in sections :
            Cardinality({u \in sections : u.iKeywordStartPos < t.iKeywordStartPos}) = i - 1]

\* The first section and the text before it.
ProcessSection1(sLineBuffer, v) ==
    (IF v[1].iKeywordStartPos # 0
     THEN <<ContentItem(<<>>, sLineBuffer, 0, v[1].iKeywordStartPos)>>
     ELSE <<>>)
    \o (IF SizeSub(v[2].iKeywordStartPos, v[1].iCodeStartPos) = 0
        THEN <<NoCodeBetweenKeywords>>
        ELSE <<ContentItem(v[1].sKeyword, sLineBuffer, v[1].iCodeStartPos,
                           SizeSub(v[2].iKeywordStartPos, v[1].iCodeStartPos))>>)

\* The second section, which ends at iSectionEndPos.
ProcessSection2(sLineBuffer, v, iSectionEndPos) ==
    IF SizeSub(iSectionEndPos, v[2].iCodeStartPos) = 0 THEN <<NoCodeBetweenKeywords>>
    ELSE <<ContentItem(v[2].sKeyword, sLineBuffer, v[2].iCodeStartPos,
                       SizeSub(iSectionEndPos, v[2].iCodeStartPos))>>

\* The third section, if there is one.
ProcessSection3(sLineBuffer, v) ==
    IF Len(v) = 3
    THEN <<ContentItem(v[3].sKeyword, sLineBuffer, v[3].iCodeStartPos,
                       SizeSub(Len(sLineBuffer), v[3].iCodeStartPos))>>
    ELSE <<>>

ProcessSections(sLineBuffer, v) ==
    ProcessSection1(sLineBuffer, v)
    \o ProcessSection2(sLineBuffer, v,
                       IF Len(v) = 3 THEN v[3].iKeywordStartPos ELSE Len(sLineBuffer))
    \o ProcessSection3(sLineBuffer, v)

\* Whether sKeyword occurs in the line a second time.
Repeated(sLineBuffer, sKeyword) ==
    FindFrom(sLineBuffer, sKeyword, Find(sLineBuffer, sKeyword) + 1) # npos

\* processMixedLanguageLine without its callback: applies (FALSE: the line
\* does not hold both keywords), err (the Error found before any content
\* is processed) and items (the calls of processContent in order, ended by
\* the item at which the function stops, if any).
processMixedLanguageLine(sLineBuffer) ==
    IF Find(sLineBuffer, sHlslKeyword) = npos \/ Find(sLineBuffer, sGlslKeyword) = npos
    THEN [applies |-> FALSE, err |-> NoError, items |-> <<>>]
    ELSE IF Repeated(sLineBuffer, sHlslKeyword) \/ Repeated(sLineBuffer, sGlslKeyword)
    THEN [applies |-> TRUE, err |-> "found keyword repeated multiple times on line",
          items |-> <<>>]
    ELSE [applies |-> TRUE, err |-> NoError,
          items |-> ProcessSections(sLineBuffer, SortSections(TaggedSections(sLineBuffer)))]

----------------------------------------------------------------------------
(* The parser at work: runParsing and the recursion of parseFile *)

VARIABLES
    fs,                             \* the file system: path -> [isDir, lines]
    pathToShaderSourceFile,         \* argument of parseHlsl / parseGlsl
    bParseAsHlsl,                   \* TRUE for parseHlsl, FALSE for parseGlsl
    iBaseAutomaticBindingIndex,     \* argument of parseGlsl (0 for parseHlsl)
    vAdditionalIncludeDirectories,  \* argument: directories, in list order
    stack,                          \* the active calls of parseFile, innermost last
    bindingIndicesInfo,             \* local of runParsing shared by all calls
    vFoundAdditionalPushConstants,  \* local of runParsing shared by all calls
    sFullParsedSourceCode,          \* what the outermost parseFile returned
    pc,                             \* "start", "parse", "finalize" or "done"
    result                          \* what parseHlsl / parseGlsl returned

vars == <<fs, pathToShaderSourceFile, bParseAsHlsl, iBaseAutomaticBindingIndex,
          vAdditionalIncludeDirectories, stack, bindingIndicesInfo,
          vFoundAdditionalPushConstants, sFullParsedSourceCode, pc, result>>

NewLine == <<"\n">>

\* A path is <<directory, relative path>>; the directory is "" for a path
\* without a parent path.
parent_path(path) == path[1]

has_parent_path(path) == path[1] # ""

exists(path) == path \in DOMAIN fs

is_directory(path) == fs[path].isDir

\* What the callbacks of one loop iteration of parseFile work on: the
\* output of the file so far, the shared binding state and constants, the
\* flag the callbacks raise and the Error or exception that ended them.
NewContext(sFullSourceCode, info, consts) ==
    [sFullSourceCode |-> sFullSourceCode, info |-> info, consts |-> consts,
     bFound |-> FALSE, err |-> NoError, exception |-> FALSE]

\* The callback given to processKeywordCode for the additional constants.
processAdditionalConstants(ctx, sKeyword, sText) ==
    IF (bParseAsHlsl /\ sKeyword = sAdditionalPushConstantsKeyword)
       \/ (~bParseAsHlsl /\ sKeyword = sAdditionalRootConstantsKeyword)
    THEN [ctx EXCEPT !.bFound = TRUE]
    ELSE [ctx EXCEPT !.bFound = TRUE,
                     !.consts = Append(@, IF bParseAsHlsl
                                          THEN convertGlslTypesToHlslTypes(sText)
                                          ELSE sText)]

\* sText is appended to the output of the file once its hardcoded binding
\* index, if it has one, is registered.
AppendCode(ctx, sText, bAddNewLineAfterProcessingKeywordContent) ==
    With(addHardcodedBindingIndexIfFound(bParseAsHlsl, sText, ctx.info), LAMBDA r :
    IF r.err # NoError THEN [ctx EXCEPT !.err = r.err]
    ELSE [ctx EXCEPT !.info = r.info,
                     !.sFullSourceCode =
                         @ \o sText \o (IF bAddNewLineAfterProcessingKeywordContent
                                        THEN <<"\n">> ELSE <<>>),
                     !.bFound = TRUE])

\* processGlslCode and processHlslCode: bForHlsl tells which one.  The
\* text is ignored when it is not for the target language.
processLanguageCode(ctx, bForHlsl, sText, bAddNewLineAfterProcessingKeywordContent) ==
    IF bForHlsl # bParseAsHlsl THEN [ctx EXCEPT !.bFound = TRUE]
    ELSE AppendCode(ctx, sText, bAddNewLineAfterProcessingKeywordContent)

\* processContent of the handler named ("constants", "glsl", "hlsl" or
\* "mixed"), called with sKeyword and sText.
processContent(handler, ctx, sKeyword, sText) ==
    IF handler = "constants" THEN processAdditionalConstants(ctx, sKeyword, sText)
    ELSE IF handler = "mixed" /\ sKeyword \notin {sHlslKeyword, sGlslKeyword}
    THEN [ctx EXCEPT !.sFullSourceCode = @ \o sText]
    ELSE processLanguageCode(ctx,
                             handler = "hlsl" \/ (handler = "mixed" /\ sKeyword = sHlslKeyword),
                             sText, handler # "mixed")

\* processContent called on the items in order and stopped by the first
\* Error or exception.
RECURSIVE CallOnItems(_, _, _)
CallOnItems(handler, ctx, items) ==
    IF items = <<>> \/ ctx.err # NoError \/ ctx.exception THEN ctx
    ELSE CallOnItems(handler,
                     CASE Head(items).kind = "text" ->
                              processContent(handler, ctx, Head(items).sKeyword,
                                             Head(items).text)
                       [] Head(items).kind = "error" ->
                              [ctx EXCEPT !.err = "no code found between keywords"]
                       [] Head(items).kind = "exception" -> [ctx EXCEPT !.exception = TRUE],
                     Tail(items))

\* The calls of processContent that processKeywordCode makes for k.
KeywordItems(k) ==
    [i \in 1..Len(k.texts) |-> [kind |-> "text", sKeyword |-> k.sKeyword, text |-> k.texts[i]]]

----------------------------------------------------------------------------
(* findIncludePath and the checks parseFile makes before it reads *)

NoPath == <<"", <<>>>>

\* The last of the directories, in list order, that holds sIncludedPath.
RECURSIVE FirstExisting_FromListEnd(_, _)
FirstExisting_FromListEnd(dirs, sIncludedPath) ==
    IF dirs = <<>> THEN NoPath
    ELSE IF exists(<<dirs[Len(dirs)], sIncludedPath>>)
    THEN <<dirs[Len(dirs)], sIncludedPath>>
    ELSE FirstExisting_FromListEnd(SubSeq(dirs, 1, Len(dirs) - 1), sIncludedPath)

\* The first of the directories, in list order, that holds sIncludedPath;
\* NoPath when none does.
RECURSIVE FirstExisting(_, _)
FirstExisting(dirs, sIncludedPath) ==
    IF dirs = <<>> THEN NoPath
    ELSE IF exists(<<Head(dirs), sIncludedPath>>) THEN <<Head(dirs), sIncludedPath>>
    ELSE FirstExisting(Tail(dirs), sIncludedPath)

IncludeError(msg) == [kind |-> "error", err |-> msg, path |-> NoPath]

\* The file that sIncludedPath names when included from pathToFile.
ResolveInclude(sIncludedPath, pathToFile) ==
    IF exists(<<parent_path(pathToFile), sIncludedPath>>)
    THEN [kind |-> "path", err |-> NoError,
          path |-> <<parent_path(pathToFile), sIncludedPath>>]
    ELSE With(FirstExisting(vAdditionalIncludeDirectories, sIncludedPath), LAMBDA other :
         IF other # NoPath THEN [kind |-> "path", err |-> NoError, path |-> other]
         ELSE IncludeError("unable to find included file"))

\* The line after the include keyword is erased from it.
IncludePathAfterKeyword(sLineBuffer, pathToFile) ==
    IF Len(sLineBuffer) < 2 THEN IncludeError("expected to find path after #include")
    ELSE IF At(sLineBuffer, 0) # " "
    THEN IncludeError("expected to find 1 empty space character after the keyword")
    ELSE IF At(sLineBuffer, 1) # "\""
    THEN IncludeError("expected to find open quote in the beginning of the included path")
    ELSE With(Find(Erase(sLineBuffer, 0, 2), <<"\"">>), LAMBDA iClosingQuotePos :
         IF iClosingQuotePos = npos
         THEN IncludeError("expected to find a closing quote in the included path")
         ELSE ResolveInclude(Substr(Erase(sLineBuffer, 0, 2), 0, iClosingQuotePos),
                             pathToFile))

\* [kind, err, path]: kind "none" (no include keyword on the line), "error"
\* or "path".
findIncludePath(sLineBuffer, pathToFile) ==
    With(Find(sLineBuffer, sIncludeKeyword), LAMBDA iIncludeKeywordStartPos :
    IF iIncludeKeywordStartPos = npos THEN [kind |-> "none", err |-> NoError, path |-> NoPath]
    ELSE IncludePathAfterKeyword(
             Erase(sLineBuffer, 0, iIncludeKeywordStartPos + Len(sIncludeKeyword)),
             pathToFile))

\* The Error parseFile returns before it reads the file, NoError if none.
OpenError(path) ==
    IF ~exists(path) THEN "can't open file"
    ELSE IF is_directory(path) THEN "not a file"
    ELSE IF ~has_parent_path(path) THEN "no parent path"
    ELSE NoError

----------------------------------------------------------------------------
(* One iteration of the loop of parseFile *)

AdditionalConstantsKeywords ==
    <<sAdditionalShaderConstantsKeyword, sAdditionalRootConstantsKeyword,
      sAdditionalPushConstantsKeyword>>

\* The steps of the loop body, in the order the code takes them; the last
\* one ends as "include" or as "default".
Handlers == <<"constants", "mixed", "glsl", "hlsl", "include">>

\* The keywords given to processKeywordCode by the steps that call it.
KeywordsOf(handler) ==
    CASE handler = "constants" -> AdditionalConstantsKeywords
      [] handler = "glsl" -> <<sGlslKeyword>>
      [] handler = "hlsl" -> <<sHlslKeyword>>

\* The iteration ends in the step named: by continue, by the recursive call
\* for the file included, or by returning err.
EndIteration(handler, ctx, err, next, included) ==
    [handler |-> handler,
     err |-> IF ctx.err # NoError THEN ctx.err ELSE err,
     exception |-> ctx.exception,
     sFullSourceCode |-> ctx.sFullSourceCode, info |-> ctx.info,
     consts |-> ctx.consts, next |-> next, included |-> included]

\* AppendLiteralCode without the conversion of types for HLSL.
AppendLiteralCode_WithoutConversion(ctx, sLineBuffer) ==
    With(addHardcodedBindingIndexIfFound(bParseAsHlsl, sLineBuffer, ctx.info), LAMBDA r :
    IF r.err # NoError THEN [ctx EXCEPT !.err = r.err]
    ELSE [ctx EXCEPT !.info = r.info,
                     !.sFullSourceCode = @ \o sLineBuffer \o NewLine])

\* AppendLiteralCode without the newline after the line.
AppendLiteralCode_WithoutNewLine(ctx, sLineBuffer) ==
    With(addHardcodedBindingIndexIfFound(bParseAsHlsl, sLineBuffer, ctx.info), LAMBDA r :
    IF r.err # NoError THEN [ctx EXCEPT !.err = r.err]
    ELSE [ctx EXCEPT !.info = r.info,
                     !.sFullSourceCode =
                         @ \o (IF bParseAsHlsl THEN convertGlslTypesToHlslTypes(sLineBuffer)
                               ELSE sLineBuffer)])

\* The default step: the line is literal code.
AppendLiteralCode(ctx, sLineBuffer) ==
    With(addHardcodedBindingIndexIfFound(bParseAsHlsl, sLineBuffer, ctx.info), LAMBDA r :
    IF r.err # NoError THEN [ctx EXCEPT !.err = r.err]
    ELSE [ctx EXCEPT !.info = r.info,
                     !.sFullSourceCode =
                         @ \o (IF bParseAsHlsl THEN convertGlslTypesToHlslTypes(sLineBuffer)
                               ELSE sLineBuffer) \o NewLine])

\* EndMixedLine without the new line.
EndMixedLine_WithoutNewLine(ctx) ==
    ctx

\* The new line that follows the sections of a mixed line.
EndMixedLine(ctx) ==
    IF ctx.err # NoError \/ ctx.exception THEN ctx
    ELSE [ctx EXCEPT !.sFullSourceCode = @ \o NewLine]

\* The loop body from its step n on, with the line buffer and the first
\* unread line of the file as the steps before n left them.
RECURSIVE LoopBody(_, _, _, _, _)
LoopBody(n, path, ctx, sLineBuffer, next) ==
    IF Handlers[n] \in {"constants", "glsl", "hlsl"}
    THEN With(processKeywordCode(KeywordsOf(Handlers[n]), sLineBuffer, fs[path].lines, next),
              LAMBDA k :
         With(CallOnItems(Handlers[n], ctx, KeywordItems(k)), LAMBDA c :
         IF k.found /\ (c.err # NoError \/ k.err # NoError \/ c.bFound)
         THEN EndIteration(Handlers[n], c, k.err, k.next, NoPath)
         ELSE LoopBody(n + 1, path, ctx, k.sLineBuffer, k.next)))
    ELSE IF Handlers[n] = "mixed"
    THEN With(processMixedLanguageLine(sLineBuffer), LAMBDA m :
         IF ~m.applies THEN LoopBody(n + 1, path, ctx, sLineBuffer, next)
         ELSE IF m.err # NoError THEN EndIteration("mixed", ctx, m.err, next, NoPath)
         ELSE EndIteration("mixed", EndMixedLine(CallOnItems("mixed", ctx, m.items)),
                           NoError, next, NoPath))
    ELSE With(findIncludePath(sLineBuffer, path), LAMBDA inc :
         IF inc.kind = "error" THEN EndIteration("include", ctx, inc.err, next, NoPath)
         ELSE IF inc.kind = "path"
         THEN EndIteration("include", ctx, OpenError(inc.path), next, inc.path)
         ELSE EndIteration("default", AppendLiteralCode(ctx, sLineBuffer), NoError, next,
                           NoPath))

\* The iteration that starts by reading line pos of the file at path, with
\* sFullSourceCode the output of the file so far.
Iteration(path, pos, sFullSourceCode) ==
    LoopBody(1, path,
             NewContext(sFullSourceCode, bindingIndicesInfo, vFoundAdditionalPushConstants),
             fs[path].lines[pos], pos + 1)

----------------------------------------------------------------------------
(* The inputs: source files, include directories and arguments *)

\* The most units a generated source file is made of.
MaxUnits == 3

\* The non-zero base index given to parseGlsl.
BaseK == 100

\* The most calls of parseFile in progress at once: one that would go
\* deeper is not taken.  No file of an acyclic include graph here is
\* parsed deeper than three calls.
MaxDepth == 4

\* A unit is a run of lines; a file is units laid end to end.
RECURSIVE FilesOf(_, _)
FilesOf(units, n) ==
    IF n = 0 THEN {<<>>}
    ELSE With(FilesOf(units, n - 1), LAMBDA shorter :
         shorter \cup {u \o f : u \in units, f \in shorter})

\* The files of at most n units in which no unit occurs twice.
RECURSIVE FilesOfDistinct(_, _)
FilesOfDistinct(units, n) ==
    IF n = 0 THEN {<<>>}
    ELSE {<<>>} \cup UNION {{u \o f : f \in FilesOfDistinct(units \ {u}, n - 1)} :
                                u \in units}

\* Units of the language keywords.  The letter G occurs only in text for
\* GLSL and the letter H only in text for HLSL.
LiteralUnit ==
    <<<<"v","e","c","3"," ","c">>>>

ClosingBracketUnit ==
    <<<<"}">>>>

GlslSingleUnit ==
    <<<<"#","g","l","s","l"," ","v","e","c","2"," ","G">>>>

HlslSingleUnit ==
    <<<<"#","h","l","s","l"," ","v","e","c","4"," ","H">>>>

GlslBlockUnit ==
    <<<<"#","g","l","s","l","{">>,
      <<"G","{","}">>,
      <<"}">>>>

HlslBlockUnit ==
    <<<<"#","h","l","s","l">>,
      <<"{">>,
      <<"H"," ","v","e","c","2">>,
      <<"}">>>>

MixedUnit ==
    <<<<"#","g","l","s","l"," ","G"," ","#","h","l","s","l"," ","H">>>>

EmptyBlockUnit ==
    <<<<"#","g","l","s","l"," ","{">>,
      <<"}">>>>

LanguageUnits ==
    {LiteralUnit,
     ClosingBracketUnit,
     GlslSingleUnit,
     HlslSingleUnit,
     GlslBlockUnit,
     HlslBlockUnit,
     MixedUnit,
     EmptyBlockUnit}

\* Units of GLSL binding declarations.
BindingWildcard ==
    <<<<"b","i","n","d","i","n","g","=","?">>>>

BindingOne ==
    <<<<"b","i","n","d","i","n","g"," ","="," ","1">>>>

BindingZeroThenOne ==
    <<<<"b","i","n","d","i","n","g","=","0",";","b","i","n","d","i","n","g","=","1">>>>

BindingZeroThenWildcard ==
    <<<<"b","i","n","d","i","n","g","=","0",";","b","i","n","d","i","n","g","=","?">>>>

BindingTwo ==
    <<<<"b","i","n","d","i","n","g","=","2">>>>

BindingUnits ==
    {BindingWildcard,
     BindingOne,
     BindingZeroThenOne,
     BindingZeroThenWildcard,
     BindingTwo}

\* Units of HLSL register declarations.
RegisterWildcard ==
    <<<<"r","e","g","i","s","t","e","r","(","b","?",")">>>>

RegisterSpace5 ==
    <<<<"#","h","l","s","l"," ","r","e","g","i","s","t","e","r","(","b","0",","," ","s","p","a","c","e","5",")">>>>

RegisterZeroThenWildcard ==
    <<<<"r","e","g","i","s","t","e","r","(","b","0",")",";","r","e","g","i","s","t","e","r","(","b","?",")">>>>

RegisterWildcardSpace1 ==
    <<<<"r","e","g","i","s","t","e","r","(","t","?",","," ","s","p","a","c","e","1",")">>>>

RegisterOne ==
    <<<<"r","e","g","i","s","t","e","r","(","b","1",")">>>>

RegisterZeroThenOne ==
    <<<<"r","e","g","i","s","t","e","r","(","b","0",")",";","r","e","g","i","s","t","e","r","(","b","1",")">>>>

RegisterUnits ==
    {RegisterWildcard,
     RegisterSpace5,
     RegisterZeroThenWildcard,
     RegisterWildcardSpace1,
     RegisterOne,
     RegisterZeroThenOne}

\* Units of the additional constants and of the constructs they go into.
PushConstantsLayout ==
    <<<<"l","a","y","o","u","t","(","p","u","s","h","_","c","o","n","s","t","a","n","t",")"," ","u","n","i","f","o","r","m"," ","P","{">>,
      <<"}">>>>

RootConstantsStruct ==
    <<<<"s","t","r","u","c","t"," ","R","o","o","t","C","o","n","s","t","a","n","t","s","{">>,
      <<"}">>>>

ShaderConstantsSingle ==
    <<<<"#","a","d","d","i","t","i","o","n","a","l","_","s","h","a","d","e","r","_","c","o","n","s","t","a","n","t","s"," ","v","e","c","2"," ","s",";">>>>

PushConstantsBlock ==
    <<<<"#","a","d","d","i","t","i","o","n","a","l","_","p","u","s","h","_","c","o","n","s","t","a","n","t","s","{">>,
      <<"u","i","n","t"," ","p",";">>,
      <<"}">>>>

RootConstantsSingle ==
    <<<<"#","a","d","d","i","t","i","o","n","a","l","_","r","o","o","t","_","c","o","n","s","t","a","n","t","s"," ","u","i","n","t"," ","r",";">>>>

ConstantsUnits ==
    {PushConstantsLayout,
     RootConstantsStruct,
     ShaderConstantsSingle,
     PushConstantsBlock,
     RootConstantsSingle}

\* Source files that include the files b and c.
NameA == <<"a">>

NameB == <<"b">>

NameC == <<"c">>

IncludeOnly ==
    <<<<"#","i","n","c","l","u","d","e"," ","\"","b","\"">>>>

IncludeBetweenLines ==
    <<<<"v","e","c","3"," ","r">>,
      <<"#","i","n","c","l","u","d","e"," ","\"","b","\"">>,
      <<"v","e","c","4"," ","m","a","t","2">>>>

IncludeBoth ==
    <<<<"#","i","n","c","l","u","d","e"," ","\"","b","\"">>,
      <<"#","i","n","c","l","u","d","e"," ","\"","c","\"">>>>

IncludeWithTextAround ==
    <<<<" "," ","x"," ","#","i","n","c","l","u","d","e"," ","\"","b","\""," ","y">>>>

IncludingFiles ==
    {IncludeOnly,
     IncludeBetweenLines,
     IncludeBoth,
     IncludeWithTextAround}

\* What the file b holds in each directory, and what the file c holds.
LinesOfB(dir) ==
    CASE dir = "src" -> <<<<"v","e","c","2"," ","s","b">>, <<"#","i","n","c","l","u","d","e"," ","\"","c","\"">>>>
      [] dir = "inc1" -> <<<<"v","e","c","2"," ","i","1">>, <<"#","i","n","c","l","u","d","e"," ","\"","c","\"">>>>
      [] dir = "inc2" -> <<<<"b","i","n","d","i","n","g","=","1">>, <<"v","e","c","2"," ","i","2">>>>

LinesOfC(dir) ==
    CASE dir = "inc1" -> <<<<"m","a","t","3"," ","c","1">>>>
      [] dir = "inc2" -> <<<<"m","a","t","4"," ","c","2">>>>

Directories == {"src", "inc1", "inc2"}

RootPath == <<"src", NameA>>

\* The file system with the source file holding rootLines, b in the
\* directories bDirs and c in the directories cDirs.
FileSystem(rootLines, bDirs, cDirs) ==
    [path \in {<<d, <<>>>> : d \in Directories} \cup {RootPath, <<"", NameA>>}
              \cup {<<d, NameB>> : d \in bDirs} \cup {<<d, NameC>> : d \in cDirs} |->
        IF path[2] = <<>> THEN [isDir |-> TRUE, lines |-> <<>>]
        ELSE IF path[2] = NameA THEN [isDir |-> FALSE, lines |-> rootLines]
        ELSE IF path[2] = NameB THEN [isDir |-> FALSE, lines |-> LinesOfB(path[1])]
        ELSE [isDir |-> FALSE, lines |-> LinesOfC(path[1])]]

Call(lines, bDirs, cDirs, path, hlsl, base, dirs) ==
    [fs |-> FileSystem(lines, bDirs, cDirs), path |-> path, hlsl |-> hlsl,
     base |-> base, dirs |-> dirs]

\* parseHlsl has no base index argument: runParsing gets its default, 0.
Modes == {[hlsl |-> TRUE, base |-> 0], [hlsl |-> FALSE, base |-> 0],
          [hlsl |-> FALSE, base |-> BaseK]}

IncludeDirectoryLists == {<<>>, <<"inc1">>, <<"inc1", "inc2">>, <<"inc2", "inc1">>}

\* Source files parsed one by one, each for a case of its own.
CastsFile ==
    <<<<"f","l","o","a","t","B","i","t","s","T","o","U","i","n","t","(","u","i","n","t","B","i","t","s","T","o","F","l","o","a","t","(","c",")",")">>,
      <<"a","t","o","m","i","c","M","i","n","(","a","t","o","m","i","c","M","a","x","(","c",")",")">>>>

NonSquareMatrixFile ==
    <<<<"m","a","t","3","x","4"," ","m">>>>

\* Mixed lines on which a keyword occurs twice.
RepeatedHlslFile ==
    <<<<"#","h","l","s","l"," ","H"," ","#","g","l","s","l"," ","G"," ","#","h","l","s","l"," ","H">>>>

RepeatedGlslFile ==
    <<<<"#","g","l","s","l"," ","G"," ","#","g","l","s","l"," ","G"," ","#","h","l","s","l"," ","H">>>>

RepeatedBothFile ==
    <<<<"#","h","l","s","l"," ","H"," ","#","g","l","s","l"," ","G"," ","#","b","o","t","h"," ","a"," ","#","b","o","t","h"," ","b">>>>

\* Documents without a keyword of the parser and without a wildcard.
BindingWordFile ==
    <<<<"i","n","t"," ","c",";">>,
      <<"i","n","t"," ","b","i","n","d","i","n","g",";">>>>

RegisterProfileFile ==
    <<<<"s","a","m","p","l","e","r"," ","s"," ",":"," ","r","e","g","i","s","t","e","r","(","p","s",","," ","s","0",")",";">>>>

\* Mixed lines that end with a keyword or hold two keywords side by side,
\* and a register index of twenty digits.
MarkerAtEndFile ==
    <<<<"#","g","l","s","l"," ","G"," ","#","h","l","s","l">>>>

AdjacentMarkersFile ==
    <<<<"#","g","l","s","l","#","h","l","s","l"," ","c">>>>

LongDigitRunFile ==
    <<<<"r","e","g","i","s","t","e","r","(","b","9","9","9","9","9","9","9","9","9","9","9","9","9","9","9","9","9","9","9","9",")">>>>

\* The constructs of the additional constants without a closing bracket
\* after them.
AnchorWithoutBracketFile ==
    <<<<"l","a","y","o","u","t","(","p","u","s","h","_","c","o","n","s","t","a","n","t",")"," ","u","n","i","f","o","r","m"," ","P",";">>,
      <<"s","t","r","u","c","t"," ","R","o","o","t","C","o","n","s","t","a","n","t","s",";">>,
      <<"#","a","d","d","i","t","i","o","n","a","l","_","s","h","a","d","e","r","_","c","o","n","s","t","a","n","t","s"," ","v","e","c","2"," ","s",";">>>>

\* The source file a, which includes itself.
SelfIncludeFile ==
    <<<<"v","e","c","3"," ","c">>,
      <<"#","i","n","c","l","u","d","e"," ","\"","a","\"">>>>

\* A keyword with one character of code after it.
OneCharacterCodeFile ==
    <<<<"#","g","l","s","l"," ","G">>,
      <<"v","e","c","3"," ","c">>>>

\* Blocks with a scope nested in the body, each bracket on a line of its
\* own, and blocks without a body line: after #hlsl with the bracket on the
\* next line and after a keyword of the additional constants.
BlockFiles ==
    {<<<<"#","g","l","s","l","{">>,
      <<"l","a","y","o","u","t","(","b","i","n","d","i","n","g"," ","="," ","0",")"," ","u","n","i","f","o","r","m"," ","S"," ","{">>,
      <<"u","i","n","t"," ","G",";">>,
      <<"}",";">>,
      <<"}">>,
      <<"v","e","c","3"," ","c">>>>,
     <<<<"#","h","l","s","l">>,
      <<"{">>,
      <<"}">>,
      <<"v","e","c","3"," ","c">>>>,
     <<<<"#","a","d","d","i","t","i","o","n","a","l","_","p","u","s","h","_","c","o","n","s","t","a","n","t","s","{">>,
      <<"}">>,
      <<"v","e","c","3"," ","c">>>>}

\* Mixed lines: the keywords with one space and nothing else between them,
\* and lines with text before the first keyword and a section for both
\* languages, the text being a binding in the last two.
MixedLineFiles ==
    {<<<<"#","g","l","s","l"," ","#","h","l","s","l"," ","c">>>>,
     <<<<"x"," ","#","g","l","s","l"," ","G"," ","#","b","o","t","h"," ","b"," ","#","h","l","s","l"," ","H">>>>,
     <<<<"#","b","o","t","h"," ","b"," ","#","h","l","s","l"," ","H"," ","#","g","l","s","l"," ","G">>>>,
     <<<<"b","i","n","d","i","n","g","=","0"," ","#","g","l","s","l"," ","G"," ","#","h","l","s","l"," ","H">>>>,
     <<<<"#","g","l","s","l"," ","G"," ","#","h","l","s","l"," ","H"," ","#","b","o","t","h"," ","b","i","n","d","i","n","g","=","?">>>>}

\* Declarations that are not well formed: a binding whose value is a
\* letter, a register without its closing bracket, a register index that is
\* a letter, and the wildcard as a register space, after a hardcoded index
\* and after a wildcard index.  Then files in which the allocation of an
\* index fails on such a declaration while additional constants were
\* found, without and with the construct the constants go into, and a file
\* in which the constants are put in and the wildcard gets its index.
MalformedFiles ==
    {<<<<"b","i","n","d","i","n","g","=","x">>>>,
     <<<<"r","e","g","i","s","t","e","r","(","b","0">>>>,
     <<<<"r","e","g","i","s","t","e","r","(","b","x",")">>>>,
     <<<<"r","e","g","i","s","t","e","r","(","b","0",","," ","s","p","a","c","e","?",")">>>>,
     <<<<"r","e","g","i","s","t","e","r","(","b","?",","," ","s","p","a","c","e","?",")">>>>,
     <<<<"#","a","d","d","i","t","i","o","n","a","l","_","s","h","a","d","e","r","_","c","o","n","s","t","a","n","t","s"," ","v","e","c","2"," ","s",";">>,
       <<"b","i","n","d","i","n","g","=","?",";","b","i","n","d","i","n","g">>>>,
     <<<<"#","a","d","d","i","t","i","o","n","a","l","_","s","h","a","d","e","r","_","c","o","n","s","t","a","n","t","s"," ","v","e","c","2"," ","s",";">>,
       <<"r","e","g","i","s","t","e","r","(","b","?",","," ","s","p","a","c","e","?",")">>>>,
     <<<<"l","a","y","o","u","t","(","p","u","s","h","_","c","o","n","s","t","a","n","t",")"," ","u","n","i","f","o","r","m"," ","P","{">>,
       <<"}">>,
       <<"#","a","d","d","i","t","i","o","n","a","l","_","s","h","a","d","e","r","_","c","o","n","s","t","a","n","t","s"," ","v","e","c","2"," ","s",";">>,
       <<"b","i","n","d","i","n","g","=","?",";","b","i","n","d","i","n","g">>>>,
     <<<<"l","a","y","o","u","t","(","p","u","s","h","_","c","o","n","s","t","a","n","t",")"," ","u","n","i","f","o","r","m"," ","P","{">>,
       <<"}">>,
       <<"#","a","d","d","i","t","i","o","n","a","l","_","s","h","a","d","e","r","_","c","o","n","s","t","a","n","t","s"," ","v","e","c","2"," ","s",";">>,
       <<"b","i","n","d","i","n","g","=","?">>>>}

\* Lines for the conversion of types: identifiers that hold the name of a
\* type, the shared keyword and a type twice on a line, and a character
\* three times in a row.
ConversionFiles ==
    {<<<<"i","v","e","c","3"," ","m","y","v","e","c","2"," ","f","o","r","m","a","t","4">>>>,
     <<<<"s","h","a","r","e","d"," ","s","h","a","r","e","d"," ","v","e","c","2"," ","v","e","c","2">>>>,
     <<<<"g","r","o","u","p","s","h","a","r","e","d"," ","v","e","c","3"," ","s">>>>,
     <<<<"v","e","c","4"," ","a","a","a">>>>}

SingleFiles ==
    BlockFiles \cup MixedLineFiles \cup MalformedFiles \cup ConversionFiles \cup
    {CastsFile,
     OneCharacterCodeFile,
     SelfIncludeFile,
     AnchorWithoutBracketFile,
     MarkerAtEndFile,
     AdjacentMarkersFile,
     LongDigitRunFile,
     NonSquareMatrixFile,
     RepeatedHlslFile,
     RepeatedGlslFile,
     RepeatedBothFile,
     BindingWordFile,
     RegisterProfileFile}

Calls ==
    {Call(f, {}, {}, RootPath, m.hlsl, m.base, <<>>) :
        f \in FilesOfDistinct(LanguageUnits, MaxUnits)
                  \cup FilesOfDistinct(ConstantsUnits, MaxUnits),
        m \in {m \in Modes : m.base = 0}}
    \cup {Call(f, {}, {}, RootPath, FALSE, m.base, <<>>) :
        f \in FilesOf(BindingUnits, MaxUnits), m \in {m \in Modes : ~m.hlsl}}
    \cup {Call(f, {}, {}, RootPath, TRUE, 0, <<>>) : f \in FilesOfDistinct(RegisterUnits, MaxUnits)}
    \cup {Call(f, bDirs, cDirs, RootPath, m.hlsl, m.base, dirs) :
        f \in IncludingFiles, bDirs \in SUBSET Directories,
        cDirs \in SUBSET {"inc1", "inc2"}, m \in {m \in Modes : m.base = 0},
        dirs \in IncludeDirectoryLists}
    \cup {Call(f, {}, {}, RootPath, m.hlsl, 0, <<>>) :
        f \in SingleFiles, m \in {m \in Modes : m.base = 0}}
    \cup {Call(LiteralUnit, {}, {}, path, m.hlsl, m.base, <<>>) :
        path \in {<<"src", NameB>>, <<"src", <<>>>>, <<"", NameA>>}, m \in Modes}

NoResult == [kind |-> "none", text |-> <<>>, msg |-> NoError, path |-> NoPath]

Init ==
    /\ \E c \in Calls :
        /\ fs = c.fs
        /\ pathToShaderSourceFile = c.path
        /\ bParseAsHlsl = c.hlsl
        /\ iBaseAutomaticBindingIndex = c.base
        /\ vAdditionalIncludeDirectories = c.dirs
    /\ stack = <<>>
    /\ bindingIndicesInfo = EmptyBindingIndicesInfo
    /\ vFoundAdditionalPushConstants = <<>>
    /\ sFullParsedSourceCode = <<>>
    /\ pc = "start"
    /\ result = NoResult

----------------------------------------------------------------------------
(* runParsing, step by step *)

Error(sErrorMessage, pathToErrorFile) ==
    [kind |-> "error", text |-> <<>>, msg |-> sErrorMessage, path |-> pathToErrorFile]

\* An exception that leaves parseHlsl / parseGlsl.
Exception == [kind |-> "exception", text |-> <<>>, msg |-> NoError, path |-> NoPath]

ParsedText(sText) == [kind |-> "text", text |-> sText, msg |-> NoError, path |-> NoPath]

NewFrame(path) == [path |-> path, pos |-> 1, sFullSourceCode |-> <<>>]

Top == stack[Len(stack)]

\* The innermost parseFile is about to read a line.
AtLine == pc = "parse" /\ Top.pos <= Len(fs[Top.path].lines)

\* getline fails: the innermost parseFile has read its whole file.
AtEndOfFile == pc = "parse" /\ Top.pos > Len(fs[Top.path].lines)

Arguments == <<fs, pathToShaderSourceFile, bParseAsHlsl, iBaseAutomaticBindingIndex,
               vAdditionalIncludeDirectories>>

\* The call returns r: every parseFile in progress returns with it.
Return(r) ==
    /\ result' = r
    /\ pc' = "done"
    /\ stack' = <<>>
    /\ UNCHANGED <<bindingIndicesInfo, vFoundAdditionalPushConstants, sFullParsedSourceCode>>

\* The iteration it of the innermost parseFile ends without recursion.
Continue(it) ==
    IF it.exception THEN Return(Exception)
    ELSE IF it.err # NoError THEN Return(Error(it.err, Top.path))
    ELSE /\ stack' = [stack EXCEPT ![Len(stack)] =
                         [@ EXCEPT !.pos = it.next, !.sFullSourceCode = it.sFullSourceCode]]
         /\ bindingIndicesInfo' = it.info
         /\ vFoundAdditionalPushConstants' = it.consts
         /\ UNCHANGED <<sFullParsedSourceCode, pc, result>>

\* The iteration it ends by parseFile calling itself on the file included.
Recurse(it) ==
    IF it.err # NoError
    THEN Return(Error(it.err, IF it.included # NoPath THEN it.included ELSE Top.path))
    ELSE /\ stack' = Append([stack EXCEPT ![Len(stack)] = [@ EXCEPT !.pos = it.next]],
                            NewFrame(it.included))
         /\ UNCHANGED <<bindingIndicesInfo, vFoundAdditionalPushConstants,
                        sFullParsedSourceCode, pc, result>>

\* An iteration of the innermost parseFile that ends in the step named.
Iterate(handler) ==
    /\ With(Iteration(Top.path, Top.pos, Top.sFullSourceCode), LAMBDA it :
            /\ it.handler = handler
            /\ IF handler = "include" THEN Recurse(it) ELSE Continue(it))
    /\ UNCHANGED Arguments

\* parseHlsl / parseGlsl is called: runParsing calls parseFile, which
\* checks the path before it reads.
RunParsing ==
    /\ pc = "start"
    /\ IF OpenError(pathToShaderSourceFile) # NoError
       THEN Return(Error(OpenError(pathToShaderSourceFile), pathToShaderSourceFile))
       ELSE /\ stack' = <<NewFrame(pathToShaderSourceFile)>>
            /\ pc' = "parse"
            /\ UNCHANGED <<bindingIndicesInfo, vFoundAdditionalPushConstants,
                           sFullParsedSourceCode, result>>
    /\ UNCHANGED Arguments

ProcessAdditionalConstants ==
    /\ AtLine
    /\ Iterate("constants")

ProcessMixedLanguageLine ==
    /\ AtLine
    /\ Iterate("mixed")

ProcessGlslKeyword ==
    /\ AtLine
    /\ Iterate("glsl")

ProcessHlslKeyword ==
    /\ AtLine
    /\ Iterate("hlsl")

\* The line names a file to include: parseFile calls itself on it.
ParseIncludedFile ==
    /\ AtLine
    /\ Len(stack) < MaxDepth
    /\ Iterate("include")

AppendLine ==
    /\ AtLine
    /\ Iterate("default")

\* ReturnFromIncludedFile with a newline put after the text appended.
ReturnFromIncludedFile_WithNewLine ==
    /\ AtEndOfFile
    /\ Len(stack) > 1
    /\ stack' = [SubSeq(stack, 1, Len(stack) - 1) EXCEPT ![Len(stack) - 1] =
                    [@ EXCEPT !.sFullSourceCode = @ \o Top.sFullSourceCode \o NewLine]]
    /\ UNCHANGED <<bindingIndicesInfo, vFoundAdditionalPushConstants,
                   sFullParsedSourceCode, pc, result>>
    /\ UNCHANGED Arguments

\* A recursive parseFile returns its text, which the caller appends.
ReturnFromIncludedFile ==
    /\ AtEndOfFile
    /\ Len(stack) > 1
    /\ stack' = [SubSeq(stack, 1, Len(stack) - 1) EXCEPT ![Len(stack) - 1] =
                    [@ EXCEPT !.sFullSourceCode = @ \o Top.sFullSourceCode]]
    /\ UNCHANGED <<bindingIndicesInfo, vFoundAdditionalPushConstants,
                   sFullParsedSourceCode, pc, result>>
    /\ UNCHANGED Arguments

\* The outermost parseFile returns its text to runParsing.
ReturnParsedSourceCode ==
    /\ AtEndOfFile
    /\ Len(stack) = 1
    /\ sFullParsedSourceCode' = Top.sFullSourceCode
    /\ stack' = <<>>
    /\ pc' = "finalize"
    /\ UNCHANGED <<bindingIndicesInfo, vFoundAdditionalPushConstants, result>>
    /\ UNCHANGED Arguments

\* What runParsing returns for what finalizeParsingResults gave.
ResultOf(r) == IF r.err # NoError THEN Error(r.err, r.path) ELSE ParsedText(r.text)

\* runParsing finalizes the text and returns.
FinalizeParsingResults ==
    /\ pc = "finalize"
    /\ result' = ResultOf(finalizeParsingResults(
                              pathToShaderSourceFile, bParseAsHlsl, bindingIndicesInfo,
                              sFullParsedSourceCode, vFoundAdditionalPushConstants,
                              iBaseAutomaticBindingIndex))
    /\ pc' = "done"
    /\ UNCHANGED <<stack, bindingIndicesInfo, vFoundAdditionalPushConstants,
                   sFullParsedSourceCode>>
    /\ UNCHANGED Arguments

Next ==
    \/ RunParsing
    \/ ProcessAdditionalConstants
    \/ ProcessMixedLanguageLine
    \/ ProcessGlslKeyword
    \/ ProcessHlslKeyword
    \/ ParseIncludedFile
    \/ AppendLine
    \/ ReturnFromIncludedFile
    \/ ReturnParsedSourceCode
    \/ FinalizeParsingResults

Spec == Init /\ [][Next]_vars

----------------------------------------------------------------------------
(* Properties *)

Contains(sText, sPart) == Find(sText, sPart) # npos

\* parseHlsl / parseGlsl has returned text.
Succeeded == pc = "done" /\ result.kind = "text"

\* The lines of the source file the call was made for.
SourceLines == IF exists(pathToShaderSourceFile) THEN fs[pathToShaderSourceFile].lines ELSE <<>>

\* The body text for GLSL, and the body text for HLSL, of the lines of
\* LanguageUnits that hold one: the single-line forms, the block bodies and
\* the sections of the mixed line.
GlslBodyOf(sLine) ==
    CASE sLine = <<"#","g","l","s","l"," ","v","e","c","2"," ","G">> -> <<"v","e","c","2"," ","G">>
      [] sLine = <<"G","{","}">> -> <<"G","{","}">>
      [] sLine = <<"#","g","l","s","l"," ","G"," ","#","h","l","s","l"," ","H">> -> <<"G"," ">>
      [] OTHER -> <<>>

HlslBodyOf(sLine) ==
    CASE sLine = <<"#","h","l","s","l"," ","v","e","c","4"," ","H">> -> <<"v","e","c","4"," ","H">>
      [] sLine = <<"H"," ","v","e","c","2">> -> <<"H"," ","v","e","c","2">>
      [] sLine = <<"#","g","l","s","l"," ","G"," ","#","h","l","s","l"," ","H">> -> <<"H">>
      [] OTHER -> <<>>

\* C1 (as stated): language exclusivity.  Whenever parseGlsl returns text
\* for a source file made of GLSL content (marked G) and HLSL content
\* (marked H), in single-line, block or mixed-line form, the text holds
\* the body of every GLSL line and nothing of the HLSL content; and the
\* same for parseHlsl with the languages exchanged.
C1_LanguageExclusivity ==
    Succeeded =>
        /\ ~bParseAsHlsl =>
            /\ ~Contains(result.text, <<"H">>)
            /\ \A i \in 1..Len(SourceLines) :
                   Contains(result.text, GlslBodyOf(SourceLines[i]))
        /\ bParseAsHlsl =>
            /\ ~Contains(result.text, <<"G">>)
            /\ \A i \in 1..Len(SourceLines) :
                   Contains(result.text, HlslBodyOf(SourceLines[i]))

\* The GLSL block whose body line holds both brackets, then a line for
\* HLSL and a closing bracket: parseGlsl returns the HLSL line in its text.
C1_FailingInput ==
    /\ Succeeded
    /\ ~bParseAsHlsl
    /\ SourceLines = GlslBlockUnit \o HlslSingleUnit \o ClosingBracketUnit
    /\ result.text = <<"G","{","}","\n","}","\n","#","h","l","s","l"," ","v","e","c","4"," ","H","\n">>

\* ---------------------------------------------------------------------
\* Binding declarations of a text, as the claims speak of them

\* The index written at position v: -1 for the wildcard, -2 for what is
\* neither the wildcard nor a number.
IndexAt(sText, v) ==
    IF CharAt(sText, v) = assignBindingIndexCharacter THEN -1
    ELSE IF DigitRun(sText, v) = <<>> THEN -2
    ELSE DigitsValue(DigitRun(sText, v))

\* The declarations binding = x of a GLSL text, in text order.
RECURSIVE GlslDeclarations(_, _)
GlslDeclarations(sText, from) ==
    With(FindFrom(sText, sGlslBindingKeyword, from), LAMBDA p :
        IF p = npos THEN <<>>
        ELSE With(SkipSpaces(sText, SkipUntil(sText, p + Len(sGlslBindingKeyword), "=") + 1),
                  LAMBDA v :
                      <<[ns |-> <<"binding", 0>>, index |-> IndexAt(sText, v)]>>
                          \o GlslDeclarations(sText, v)))

\* The declarations register(tx, spacey) of an HLSL text, in text order;
\* the namespace of one is its register type and space.
RECURSIVE HlslDeclarations(_, _)
HlslDeclarations(sText, from) ==
    With(findHlslRegisterInfo(sText, from), LAMBDA g :
        IF ~g.found \/ g.err # NoError \/ g.closePos = npos THEN <<>>
        ELSE <<[ns |-> <<CharAt(sText, g.typePos),
                         IF g.hasSpace THEN DigitsValue(DigitRun(sText, g.spacePos)) ELSE 0>>,
                index |-> IndexAt(sText, g.indexPos)]>>
                 \o HlslDeclarations(sText, g.closePos))

Declarations(sText) ==
    IF bParseAsHlsl THEN HlslDeclarations(sText, 0) ELSE GlslDeclarations(sText, 0)

\* The declarations of the text parseFile returned, and of the text the
\* call returned.
Before == Declarations(sFullParsedSourceCode)
After == Declarations(result.text)

\* The smallest index from n on that is not in used.
SmallestFree(n, used) ==
    CHOOSE m \in n..(n + Cardinality(used)) :
        m \notin used /\ \A k \in n..(m - 1) : k \in used

\* The indices of the declarations d.
Indices(d) == [i \in 1..Len(d) |-> d[i].index]

\* The declarations i of b that held the wildcard and hold an index in a.
Substituted(b, a) == {i \in 1..Len(b) : b[i].index = -1 /\ a[i].index # -1}

\* The declarations of b that hold a hardcoded index.
Hardcoded(b) == {i \in 1..Len(b) : b[i].index # -1}

\* C2 (as stated): index collision freedom.  In the text a successful
\* parseGlsl or parseHlsl returns, no index substituted for a wildcard
\* equals a hardcoded index of the same namespace in that text, and no two
\* substituted indices of one namespace are equal.
C2_IndexCollisionFreedom ==
    Succeeded =>
        With(Before, LAMBDA b : With(After, LAMBDA a :
            /\ Len(a) = Len(b)
            /\ \A i \in Substituted(b, a) :
                   \A j \in (Hardcoded(b) \cup Substituted(b, a)) \ {i} :
                       a[j].ns = a[i].ns => a[j].index # a[i].index))

\* A line with two hardcoded bindings, then a wildcard: parseGlsl gives
\* the wildcard the index of the second hardcoded binding.
C2_FailingInput ==
    /\ Succeeded
    /\ ~bParseAsHlsl
    /\ iBaseAutomaticBindingIndex = 0
    /\ SourceLines = BindingZeroThenOne \o BindingWildcard
    /\ result.text = <<"b","i","n","d","i","n","g","=","0",";","b","i","n","d","i","n","g","=","1","\n",
                       "b","i","n","d","i","n","g","=","1","\n">>

\* The wildcards of b hold in a what the rule of allocation gives from
\* the declaration i on, the counter being counter.
RECURSIVE GlslRule(_, _, _, _, _)
GlslRule(b, a, i, counter, used) ==
    IF i > Len(b) THEN TRUE
    ELSE IF b[i].index # -1 THEN GlslRule(b, a, i + 1, counter, used)
    ELSE /\ a[i].index = SmallestFree(counter, used)
         /\ GlslRule(b, a, i + 1, a[i].index + 1, used)

\* C3 (as stated): GLSL allocation rule.  In the text a successful
\* parseGlsl returns, each wildcard of the merged text, left to right,
\* holds the smallest integer that is at least the counter (at first the
\* base index) and not in usedGlslIndices, the counter then being that
\* integer plus one.
C3_GlslAllocationRule ==
    (Succeeded /\ ~bParseAsHlsl) =>
        With(Before, LAMBDA b : With(After, LAMBDA a :
            /\ Len(a) = Len(b)
            /\ GlslRule(b, a, 1, iBaseAutomaticBindingIndex,
                        bindingIndicesInfo.usedGlslIndices)))

\* A line with a hardcoded binding and then a wildcard: parseGlsl
\* returns the wildcard as it was written.
C3_FailingInput ==
    /\ Succeeded
    /\ ~bParseAsHlsl
    /\ SourceLines = BindingZeroThenWildcard
    /\ result.text = <<"b","i","n","d","i","n","g","=","0",";","b","i","n","d","i","n","g","=","?","\n">>

\* C4: base offset lower bound.  In the text a successful
\* parseGlsl(doc, K) returns, every index substituted for a wildcard is at
\* least K and every hardcoded index of the document is as it was written.
C4_BaseOffsetLowerBound ==
    (Succeeded /\ ~bParseAsHlsl) =>
        With(Before, LAMBDA b : With(After, LAMBDA a :
            /\ Len(a) = Len(b)
            /\ \A i \in Hardcoded(b) : a[i].index = b[i].index
            /\ \A i \in Substituted(b, a) : a[i].index >= iBaseAutomaticBindingIndex))

\* A wildcard, the hardcoded binding 1 and a wildcard, parsed with the
\* base K: the wildcards have become K and K + 1 and the 1 is still 1.
C4_ShiftedAroundHardcoded ==
    /\ Succeeded
    /\ ~bParseAsHlsl
    /\ iBaseAutomaticBindingIndex = BaseK
    /\ Indices(Before) = <<-1, 1, -1>>
    /\ Indices(After) = <<BaseK, 1, BaseK + 1>>

\* The declarations of the text the same call returns with the base 0:
\* parseFile does not read the base, which only finalizeParsingResults
\* hands to assignBindingIndices.
AfterWithBaseZero ==
    Declarations(finalizeParsingResults(pathToShaderSourceFile, bParseAsHlsl,
                                        bindingIndicesInfo, sFullParsedSourceCode,
                                        vFoundAdditionalPushConstants, 0).text)

\* The n-th smallest natural number that is not in used.
RECURSIVE NthFree(_, _)
NthFree(n, used) ==
    IF n = 1 THEN SmallestFree(0, used) ELSE SmallestFree(NthFree(n - 1, used) + 1, used)

\* How many substituted wildcards there are up to the declaration i.
Rank(b, a, i) == Cardinality({j \in Substituted(b, a) : j <= i})

\* C5 (as stated): base offset shift.  The index parseGlsl with the base
\* K gives the i-th wildcard is the index parseGlsl with the base 0 gives
\* it, plus K, hardcoded indices in the document or not.
C5_BaseOffsetShift ==
    (Succeeded /\ ~bParseAsHlsl) =>
        With(Before, LAMBDA b : With(After, LAMBDA a : With(AfterWithBaseZero, LAMBDA a0 :
            /\ Len(a) = Len(b)
            /\ Len(a0) = Len(b)
            /\ \A i \in Substituted(b, a) :
                   a[i].index = a0[i].index + iBaseAutomaticBindingIndex)))

\* C5 (amended): the index parseGlsl with the base K gives the i-th
\* wildcard is K plus the i-th smallest natural number n for which K + n
\* is not in usedGlslIndices; it is the index given with the base 0, plus
\* K, when usedGlslIndices is empty.
C5_BaseOffsetShiftOverFreeIndices ==
    (Succeeded /\ ~bParseAsHlsl) =>
        With(Before, LAMBDA b : With(After, LAMBDA a : With(AfterWithBaseZero, LAMBDA a0 :
            /\ Len(a) = Len(b)
            /\ Len(a0) = Len(b)
            /\ \A i \in Substituted(b, a) :
                   /\ a[i].index = iBaseAutomaticBindingIndex
                          + NthFree(Rank(b, a, i),
                                    {u - iBaseAutomaticBindingIndex :
                                         u \in {v \in bindingIndicesInfo.usedGlslIndices :
                                                    v >= iBaseAutomaticBindingIndex}})
                   /\ bindingIndicesInfo.usedGlslIndices = {}
                          => a[i].index = a0[i].index + iBaseAutomaticBindingIndex)))

\* Two wildcards and no index in use, parsed with the base K: they have
\* become K and K + 1, which the base 0 makes 0 and 1.
C5_ShiftedWithoutHardcoded ==
    /\ Succeeded
    /\ ~bParseAsHlsl
    /\ iBaseAutomaticBindingIndex = BaseK
    /\ bindingIndicesInfo.usedGlslIndices = {}
    /\ Indices(Before) = <<-1, -1>>
    /\ Indices(After) = <<BaseK, BaseK + 1>>
    /\ Indices(AfterWithBaseZero) = <<0, 1>>

\* The indices a gives the wildcards of b that come before the
\* declaration i and are of its namespace.
AssignedBefore(b, a, i) ==
    {a[j].index : j \in {k \in 1..(i - 1) : b[k].index = -1 /\ b[k].ns = b[i].ns}}

\* C6 (as stated): HLSL allocation per register type and space.  In the
\* text a successful parseHlsl returns, every register wildcard, one
\* without a space being of space 0, holds the smallest index from 0 on
\* that is not in usedHlslIndices of its type and space and was not given
\* to an earlier wildcard of that type and space; the indices of other
\* types and spaces have no part in it.
C6_HlslAllocationPerTypeAndSpace ==
    (Succeeded /\ bParseAsHlsl) =>
        With(Before, LAMBDA b : With(After, LAMBDA a :
            /\ Len(a) = Len(b)
            /\ \A i \in 1..Len(b) :
                   b[i].index = -1 =>
                       a[i].index =
                           SmallestFree(0, UsedHlsl(bindingIndicesInfo, b[i].ns[1], b[i].ns[2])
                                               \cup AssignedBefore(b, a, i))))

\* A line with a hardcoded register and then a wildcard: parseHlsl
\* returns the wildcard as it was written.
C6_FailingInput ==
    /\ Succeeded
    /\ bParseAsHlsl
    /\ SourceLines = RegisterZeroThenWildcard
    /\ result.text = <<"r","e","g","i","s","t","e","r","(","b","0",")",";",
                       "r","e","g","i","s","t","e","r","(","b","?",")","\n">>

\* sText starts with sPart.
IsPrefix(sPart, sText) ==
    Len(sPart) <= Len(sText) /\ SubSeq(sText, 1, Len(sPart)) = sPart

\* The lines, each ended by a newline, as one text.
RECURSIVE Joined(_)
Joined(lines) == IF lines = <<>> THEN <<>> ELSE lines[1] \o NewLine \o Joined(Tail(lines))

\* A step of the traversal leaves the text of every parseFile in progress
\* as it is or adds to its end, and what an iteration adds for the lines
\* it has read holds the indices and wildcards of those lines as written.
TraversalReplacesNothing ==
    (pc = "parse" /\ pc' = "parse") =>
        /\ \A k \in 1..Min2(Len(stack), Len(stack')) :
               IsPrefix(stack[k].sFullSourceCode, stack'[k].sFullSourceCode)
        /\ (Len(stack') = Len(stack)
                /\ stack'[Len(stack)].sFullSourceCode # Top.sFullSourceCode) =>
               Indices(Declarations(SubSeq(stack'[Len(stack)].sFullSourceCode,
                                           Len(Top.sFullSourceCode) + 1,
                                           Len(stack'[Len(stack)].sFullSourceCode))))
                   = Indices(Declarations(Joined(SubSeq(fs[Top.path].lines, Top.pos,
                                                        stack'[Len(stack)].pos - 1))))

\* The text of the outermost parseFile reaches finalizeParsingResults as
\* it was at the end of the traversal.
TraversalHandsOverItsText ==
    (pc = "parse" /\ pc' = "finalize") => sFullParsedSourceCode' = stack[1].sFullSourceCode

\* The pass over the merged text gives no wildcard a hardcoded index of
\* its namespace, be it earlier or later in the text than the wildcard.
AllocationExcludesHardcoded ==
    (pc = "finalize" /\ pc' = "done" /\ result'.kind = "text") =>
        With(Before, LAMBDA b : With(Declarations(result'.text), LAMBDA a :
            /\ Len(a) = Len(b)
            /\ \A i \in Substituted(b, a) :
                   \A j \in Hardcoded(b) :
                       b[j].ns = b[i].ns => a[i].index # b[j].index))

\* C7 (as stated): allocation in one pass after the traversal.  No
\* wildcard is replaced while a file of the include tree is still being
\* read, and the one pass that follows gives no wildcard a hardcoded index
\* of the merged text, whether that index stands before the wildcard or
\* after it, in the same file or in a file included afterwards.
C7_OnePassAfterTraversal ==
    [][/\ TraversalReplacesNothing
       /\ TraversalHandsOverItsText
       /\ AllocationExcludesHardcoded]_vars

\* A wildcard, then a line with two hardcoded bindings: parseGlsl gives
\* the wildcard the index of the second hardcoded binding that follows it.
C7_FailingInput ==
    /\ Succeeded
    /\ ~bParseAsHlsl
    /\ iBaseAutomaticBindingIndex = 0
    /\ SourceLines = BindingWildcard \o BindingZeroThenOne
    /\ result.text = <<"b","i","n","d","i","n","g","=","1","\n",
                       "b","i","n","d","i","n","g","=","0",";","b","i","n","d","i","n","g","=","1","\n">>

\* ---------------------------------------------------------------------
\* Includes, as the claims speak of them

\* The line holds the include keyword, a space and a quoted path.
IsIncludeLine(sLine) ==
    With(Find(sLine, sIncludeKeyword \o <<" ", "\"">>), LAMBDA p :
        p # npos /\ FindFrom(sLine, <<"\"">>, p + Len(sIncludeKeyword) + 2) # npos)

\* The path between the quotes of an include line.
IncludedName(sLine) ==
    With(Find(sLine, sIncludeKeyword \o <<" ", "\"">>) + Len(sIncludeKeyword) + 2, LAMBDA p :
        SubSeq(sLine, p + 1, FindFrom(sLine, <<"\"">>, p)))

\* Where the file p included from the file F is looked for, in order: the
\* directory of F, then the additional include directories.
Candidates(F, p) ==
    [m \in 1..(1 + Len(vAdditionalIncludeDirectories)) |->
        IF m = 1 THEN <<F[1], p>> ELSE <<vAdditionalIncludeDirectories[m - 1], p>>]

\* The candidates that exist.
Existing(F, p) == {m \in DOMAIN Candidates(F, p) : Candidates(F, p)[m] \in DOMAIN fs}

\* The first candidate that exists.
Resolved(F, p) ==
    Candidates(F, p)[CHOOSE m \in Existing(F, p) : \A n \in Existing(F, p) : m <= n]

\* The line the innermost parseFile is about to read.
CurrentLine == fs[Top.path].lines[Top.pos]

\* C8: include resolution order.  When parseFile reads an include line
\* for the path p in the file F, the file it goes on to parse (or fails to
\* open) is p in the directory of F if that exists, otherwise p in the
\* first of the additional include directories, in list order, in which it
\* exists; if it exists in none the call returns the Error "unable to find
\* included file" for the file F.
C8_IncludeResolutionOrder ==
    [][(pc = "parse" /\ Top.pos <= Len(fs[Top.path].lines) /\ IsIncludeLine(CurrentLine)) =>
           With(IncludedName(CurrentLine), LAMBDA p :
               IF Existing(Top.path, p) = {}
               THEN /\ pc' = "done"
                    /\ result' = Error("unable to find included file", Top.path)
               ELSE \/ /\ pc' = "parse"
                       /\ Len(stack') = Len(stack) + 1
                       /\ stack'[Len(stack')].path = Resolved(Top.path, p)
                    \/ /\ pc' = "done"
                       /\ result'.kind = "error"
                       /\ result'.path = Resolved(Top.path, p))]_vars

\* The file b is in both additional include directories and not in the
\* directory of the including file: the one parsed is the one of the
\* directory that is first in the list.
C8_FirstListedDirectoryWins ==
    /\ pc = "parse"
    /\ Len(stack) = 2
    /\ vAdditionalIncludeDirectories = <<"inc2", "inc1">>
    /\ <<"src", NameB>> \notin DOMAIN fs
    /\ <<"inc1", NameB>> \in DOMAIN fs
    /\ stack[1].path = RootPath
    /\ stack[2].path = <<"inc2", NameB>>

\* A line that no keyword handler takes: it is literal code or an include.
PlainOrInclude(sLine) == IsIncludeLine(sLine) \/ ~Contains(sLine, <<"#">>)

AllLinesPlainOrInclude ==
    \A path \in DOMAIN fs :
        \A i \in 1..Len(fs[path].lines) : PlainOrInclude(fs[path].lines[i])

\* The text for the lines of the file F: a line of literal code gives the
\* text the default step appends for it, an include line the text for the
\* lines of the file included, and nothing else.
RECURSIVE Expansion(_, _)
Expansion(F, lines) ==
    IF lines = <<>> THEN <<>>
    ELSE (IF IsIncludeLine(Head(lines))
          THEN With(Resolved(F, IncludedName(Head(lines))), LAMBDA included :
                    Expansion(included, fs[included].lines))
          ELSE (IF bParseAsHlsl THEN convertGlslTypesToHlslTypes(Head(lines))
                ELSE Head(lines)) \o NewLine)
         \o Expansion(F, Tail(lines))

\* parseFile calling itself for an include line adds nothing to the text
\* of any parseFile in progress, starts the included file with no text,
\* and hands on the binding state, the constants and the language.
IncludeAddsNothing ==
    (pc = "parse" /\ pc' = "parse" /\ Len(stack') = Len(stack) + 1) =>
        /\ \A k \in 1..Len(stack) : stack'[k].sFullSourceCode = stack[k].sFullSourceCode
        /\ stack'[Len(stack')].sFullSourceCode = <<>>
        /\ UNCHANGED <<bindingIndicesInfo, vFoundAdditionalPushConstants, bParseAsHlsl>>

\* The text the included file has produced is appended as it is to the
\* text of the including file, whose binding state and constants are
\* those the included file has left.
ReturnAppendsIncludedText ==
    (pc = "parse" /\ pc' = "parse" /\ Len(stack') = Len(stack) - 1) =>
        /\ stack'[Len(stack')].sFullSourceCode =
               stack[Len(stack) - 1].sFullSourceCode \o Top.sFullSourceCode
        /\ \A k \in 1..(Len(stack) - 2) : stack'[k].sFullSourceCode = stack[k].sFullSourceCode
        /\ UNCHANGED <<bindingIndicesInfo, vFoundAdditionalPushConstants, bParseAsHlsl>>

\* The text of an include tree of literal lines is the expansion of its
\* source file.
TraversalGivesExpansion ==
    (pc = "parse" /\ pc' = "finalize" /\ AllLinesPlainOrInclude) =>
        sFullParsedSourceCode' = Expansion(pathToShaderSourceFile, SourceLines)

\* C9: include expansion.  The text produced for a file is the in-order
\* concatenation of the text produced for its lines, an include line
\* giving exactly the text produced for the included file with the same
\* language, binding state and constants: nothing of the include line
\* itself and no newline is added.
C9_IncludeExpansion ==
    [][/\ IncludeAddsNothing
       /\ ReturnAppendsIncludedText
       /\ TraversalGivesExpansion]_vars

\* The file with an include between two lines, b found next to it and c
\* found in inc1: the text returned is those of b and c between the two
\* lines.
C9_IncludedBetweenLines ==
    /\ Succeeded
    /\ ~bParseAsHlsl
    /\ SourceLines = IncludeBetweenLines
    /\ <<"src", NameB>> \in DOMAIN fs
    /\ vAdditionalIncludeDirectories = <<"inc1">>
    /\ <<"inc1", NameC>> \in DOMAIN fs
    /\ result.text = <<"v","e","c","3"," ","r","\n",
                       "v","e","c","2"," ","s","b","\n",
                       "m","a","t","3"," ","c","1","\n",
                       "v","e","c","4"," ","m","a","t","2","\n">>

\* ---------------------------------------------------------------------
\* Conversion of types, as the claims speak of it

\* sText with every vec2, vec3, vec4 replaced by float2, float3, float4
\* and every mat2, mat3, mat4 by float2x2, float3x3, float4x4.
RECURSIVE TypesReplaced(_)
TypesReplaced(sText) ==
    IF sText = <<>> THEN <<>>
    ELSE IF Len(sText) >= 4 /\ sText[4] \in {"2", "3", "4"}
            /\ SubSeq(sText, 1, 3) = <<"v","e","c">>
    THEN <<"f","l","o","a","t", sText[4]>> \o TypesReplaced(SubSeq(sText, 5, Len(sText)))
    ELSE IF Len(sText) >= 4 /\ sText[4] \in {"2", "3", "4"}
            /\ SubSeq(sText, 1, 3) = <<"m","a","t">>
    THEN <<"f","l","o","a","t", sText[4], "x", sText[4]>>
             \o TypesReplaced(SubSeq(sText, 5, Len(sText)))
    ELSE <<Head(sText)>> \o TypesReplaced(Tail(sText))

\* What a step that stays in the innermost parseFile has added to its text.
Appended ==
    SubSeq(stack'[Len(stack)].sFullSourceCode, Len(Top.sFullSourceCode) + 1,
           Len(stack'[Len(stack)].sFullSourceCode))

\* The lines such a step has read, each ended by a newline.
LinesRead == Joined(SubSeq(fs[Top.path].lines, Top.pos, stack'[Len(stack)].pos - 1))

\* The step reads a line and stays in the innermost parseFile.
StepOverLines ==
    /\ pc = "parse" /\ Top.pos <= Len(fs[Top.path].lines)
    /\ pc' = "parse" /\ Len(stack') = Len(stack)

\* A line of literal code is appended with a newline, its types replaced
\* when the target is HLSL and as it is when the target is GLSL.
LiteralLineConvertedByMode ==
    (StepOverLines /\ ~Contains(CurrentLine, <<"#">>)) =>
        /\ stack'[Len(stack)].pos = Top.pos + 1
        /\ stack'[Len(stack)].sFullSourceCode =
               Top.sFullSourceCode
                   \o (IF bParseAsHlsl THEN ReplaceShared(TypesReplaced(CurrentLine))
                       ELSE CurrentLine)
                   \o NewLine

\* What the keyword of the target language alone on its line, or with its
\* block, makes parseFile append is text of the lines read, as written.
KeywordContentNotConverted ==
    (StepOverLines
         /\ StartsWith(CurrentLine, IF bParseAsHlsl THEN sHlslKeyword ELSE sGlslKeyword)
         /\ FindFrom(CurrentLine, <<"#">>, 1) = npos) =>
        /\ Contains(LinesRead, Appended)
        /\ SubSeq(fs[Top.path].lines, Top.pos, stack'[Len(stack)].pos - 1) = HlslBlockUnit
               => Appended = HlslBlockUnit[3] \o NewLine

\* No text parseGlsl has produced holds a type of HLSL.
GlslTextNotConverted ==
    (~bParseAsHlsl /\ pc' = "parse") =>
        \A k \in 1..Len(stack') :
            \A i \in 1..Len(HlslTypes) : ~Contains(stack'[k].sFullSourceCode, HlslTypes[i])

\* C10: type conversion by mode.  For every line of literal code
\* parseHlsl appends the line with vec2/vec3/vec4 replaced by
\* float2/float3/float4 and mat2/mat3/mat4 by float2x2/float3x3/float4x4,
\* and a newline; parseGlsl converts no type in any line; and the content
\* under the keyword of the target language is appended as written.
C10_TypeConversionByMode ==
    [][/\ LiteralLineConvertedByMode
       /\ KeywordContentNotConverted
       /\ GlslTextNotConverted]_vars

\* A line of literal code and an HLSL block, both naming a type of GLSL:
\* parseHlsl returns the line converted and the block as it was written.
C10_LineConvertedBlockKept ==
    /\ Succeeded
    /\ bParseAsHlsl
    /\ SourceLines = LiteralUnit \o HlslBlockUnit
    /\ result.text = <<"f","l","o","a","t","3"," ","c","\n","H"," ","v","e","c","2","\n">>

\* ---------------------------------------------------------------------
\* Conversion of casts and atomic functions

GlslFunctions ==
    <<<<"f","l","o","a","t","B","i","t","s","T","o","U","i","n","t">>,
      <<"u","i","n","t","B","i","t","s","T","o","F","l","o","a","t">>,
      <<"a","t","o","m","i","c","M","i","n">>,
      <<"a","t","o","m","i","c","M","a","x">>>>

HlslFunctions ==
    <<<<"a","s","u","i","n","t">>,
      <<"a","s","f","l","o","a","t">>,
      <<"I","n","t","e","r","l","o","c","k","e","d","M","i","n">>,
      <<"I","n","t","e","r","l","o","c","k","e","d","M","a","x">>>>

\* sText with every floatBitsToUint, uintBitsToFloat, atomicMin and
\* atomicMax replaced by asuint, asfloat, InterlockedMin, InterlockedMax.
RECURSIVE FunctionsReplaced(_)
FunctionsReplaced(sText) ==
    IF sText = <<>> THEN <<>>
    ELSE IF \E k \in 1..4 : IsPrefix(GlslFunctions[k], sText)
    THEN With(CHOOSE k \in 1..4 : IsPrefix(GlslFunctions[k], sText), LAMBDA k :
             HlslFunctions[k]
                 \o FunctionsReplaced(SubSeq(sText, Len(GlslFunctions[k]) + 1, Len(sText))))
    ELSE <<Head(sText)>> \o FunctionsReplaced(Tail(sText))

\* C11: cast and atomic conversion.  For every line of literal code
\* parseHlsl appends the line with every floatBitsToUint replaced by
\* asuint, uintBitsToFloat by asfloat, atomicMin by InterlockedMin and
\* atomicMax by InterlockedMax (next to the conversion of the types).
C11_CastAndAtomicConversion ==
    [][(StepOverLines /\ bParseAsHlsl /\ ~Contains(CurrentLine, <<"#">>)) =>
          Appended = FunctionsReplaced(ReplaceShared(TypesReplaced(CurrentLine)))
                         \o NewLine]_vars

\* parseHlsl of two lines that call floatBitsToUint, uintBitsToFloat,
\* atomicMin and atomicMax returns the four names as they were written.
C11_FailingInput ==
    /\ Succeeded
    /\ bParseAsHlsl
    /\ SourceLines = CastsFile
    /\ result.text = Joined(CastsFile)

\* ---------------------------------------------------------------------
\* Matrix types that are not square

\* The type names matNxM with N and M different.
NonSquareMatrixTypes ==
    {<<"m","a","t", n, "x", m>> : n, m \in {"2", "3", "4"}} \ {<<"m","a","t", n, "x", n>> : n \in {"2", "3", "4"}}

\* The positions at which sPart occurs in sText.
Occurrences(sText, sPart) ==
    {i \in 0..(Len(sText) - Len(sPart)) : MatchAt(sText, sPart, i)}

\* C12: matrix types that are not square are not converted.  For every
\* line of literal code that names a type matNxM with N and M different,
\* what parseHlsl appends for the line names that type as often as the
\* line does.
C12_NonSquareMatrixKept ==
    [][(StepOverLines /\ bParseAsHlsl /\ ~Contains(CurrentLine, <<"#">>)) =>
          \A type \in NonSquareMatrixTypes :
              Cardinality(Occurrences(Appended, type))
                  = Cardinality(Occurrences(CurrentLine, type))]_vars

\* parseHlsl of the line mat3x4 m returns float3x3x4 m.
C12_FailingInput ==
    /\ Succeeded
    /\ bParseAsHlsl
    /\ SourceLines = NonSquareMatrixFile
    /\ result.text = <<"f","l","o","a","t","3","x","3","x","4"," ","m","\n">>

\* ---------------------------------------------------------------------
\* Mixed lines

\* The innermost parseFile is about to read a line that holds both
\* language keywords.
AtMixedLine ==
    /\ AtLine
    /\ Contains(CurrentLine, sHlslKeyword)
    /\ Contains(CurrentLine, sGlslKeyword)

\* C13: repeated marker on a mixed line.  When a line that holds both
\* #hlsl and #glsl holds one of #hlsl, #glsl and #both more than once,
\* parseHlsl and parseGlsl return an Error.
C13_RepeatedMarkerIsError ==
    [][(AtMixedLine
           /\ \E sKeyword \in {sHlslKeyword, sGlslKeyword, sBothKeyword} :
                  Cardinality(Occurrences(CurrentLine, sKeyword)) > 1) =>
          (pc' = "done" /\ result'.kind = "error")]_vars

\* Both parseHlsl and parseGlsl return text for a mixed line that holds
\* #both twice: the second #both is part of the text returned.
C13_FailingInput ==
    /\ Succeeded
    /\ SourceLines = RepeatedBothFile
    /\ Contains(result.text, sBothKeyword)

\* ---------------------------------------------------------------------
\* Additional constants

\* The anchor of the target: the construct the additional constants go into.
Anchor == IF bParseAsHlsl THEN sRootConstantsAnchor ELSE sPushConstantsAnchor

\* The entries the lines of ConstantsUnits hold for the target, in the
\* order of the lines: the code after the keyword or the line of the
\* block, its types converted when the target is HLSL.
RECURSIVE EntriesOf(_)
EntriesOf(lines) ==
    IF lines = <<>> THEN <<>>
    ELSE (IF lines[1] = ShaderConstantsSingle[1]
          THEN <<IF bParseAsHlsl THEN <<"f","l","o","a","t","2"," ","s",";">>
                 ELSE <<"v","e","c","2"," ","s",";">>>>
          ELSE IF lines[1] = PushConstantsBlock[2] /\ ~bParseAsHlsl
          THEN <<PushConstantsBlock[2]>>
          ELSE IF lines[1] = RootConstantsSingle[1] /\ bParseAsHlsl
          THEN <<<<"u","i","n","t"," ","r",";">>>>
          ELSE <<>>)
         \o EntriesOf(Tail(lines))

\* The entries, each ended by a newline, as one text.
RECURSIVE NewLineTerminated(_)
NewLineTerminated(entries) ==
    IF entries = <<>> THEN <<>>
    ELSE (IF EndsWith(entries[1], NewLine) THEN entries[1] ELSE entries[1] \o NewLine)
         \o NewLineTerminated(Tail(entries))

\* The position of the first closing bracket after the first anchor of
\* sText, npos if there is none.
InsertPosition(sText) ==
    IF Find(sText, Anchor) = npos THEN npos
    ELSE FindFrom(sText, <<"}">>, Find(sText, Anchor))

\* The text b is the text a from the positions j and i on, but for the
\* wildcards of a, each of which is a run of digits in b.
RECURSIVE SameButWildcards(_, _, _, _)
SameButWildcards(a, i, b, j) ==
    IF i >= Len(a) THEN j >= Len(b)
    ELSE IF At(a, i) = assignBindingIndexCharacter
    THEN /\ DigitRun(b, j) # <<>>
         /\ SameButWildcards(a, i + 1, b, j + Len(DigitRun(b, j)))
    ELSE /\ j < Len(b)
         /\ At(b, j) = At(a, i)
         /\ SameButWildcards(a, i + 1, b, j + 1)

C15_MissingAnchorIsError ==
    [][(pc = "finalize" /\ vFoundAdditionalPushConstants # <<>>
            /\ ~Contains(sFullParsedSourceCode, Anchor)) =>
          /\ pc' = "done"
          /\ result'.kind = "error"
          /\ result'.msg = "initial push constants layout was not found"
          /\ result'.text = <<>>]_vars

\* parseHlsl of a line of root constants and the push constants layout of
\* GLSL, but no struct RootConstants, returns that Error.
C15_RootConstantsWithoutStruct ==
    /\ pc = "done"
    /\ bParseAsHlsl
    /\ SourceLines = RootConstantsSingle \o PushConstantsLayout
    /\ vFoundAdditionalPushConstants = <<<<"u","i","n","t"," ","r",";">>>>
    /\ result.kind = "error"
    /\ result.msg = "initial push constants layout was not found"

\* ---------------------------------------------------------------------
\* Documents that are resolved already

ParserKeywords ==
    {sIncludeKeyword, sGlslKeyword, sHlslKeyword, sBothKeyword,
     sAdditionalShaderConstantsKeyword, sAdditionalRootConstantsKeyword,
     sAdditionalPushConstantsKeyword, <<"?">>}

\* No line holds an include, a language keyword, a keyword of the
\* additional constants or a wildcard.
ResolvedDocument(lines) ==
    \A i \in 1..Len(lines) : \A sKeyword \in ParserKeywords : ~Contains(lines[i], sKeyword)

\* The document is text of the target: text for HLSL names no type of
\* GLSL and has no line that starts with the shared qualifier of GLSL.
InTargetLanguage(lines) ==
    bParseAsHlsl =>
        \A i \in 1..Len(lines) :
            /\ \A k \in 1..Len(GlslTypes) : ~Contains(lines[i], GlslTypes[k])
            /\ ~StartsWith(lines[i], sSharedKeyword)

\* The text as std::getline reads it: the lines without their newlines.
RECURSIVE SplitLines(_)
SplitLines(sText) ==
    IF sText = <<>> THEN <<>>
    ELSE With(Find(sText, NewLine), LAMBDA p :
         IF p = npos THEN <<sText>>
         ELSE <<SubSeq(sText, 1, p)>> \o SplitLines(SubSeq(sText, p + 2, Len(sText))))

\* The document is parsed: it is a file that parseFile can open.
ParsedDocument ==
    /\ pc = "done"
    /\ OpenError(pathToShaderSourceFile) = NoError
    /\ ResolvedDocument(SourceLines)
    /\ InTargetLanguage(SourceLines)

\* The call has returned the document with every line ended by a newline;
\* the lines of that text are the lines of the document, so that the
\* parse of the text returned is this parse again.
ReturnedAsWritten ==
    /\ result.kind = "text"
    /\ result.text = Joined(SourceLines)
    /\ SplitLines(result.text) = SourceLines

\* C16 as stated: round-trip idempotence.  Parsing a document of the
\* target language that holds no include, no keyword of the parser and no
\* wildcard succeeds and returns the document, every line ended by a
\* newline, so that parsing what was returned returns it unchanged.
C16_RoundTrip ==
    ParsedDocument => ReturnedAsWritten

\* A digit run std::stoul converts: at least one digit, less than twenty.
NumberAt(sLine, i) ==
    Len(DigitRun(sLine, i)) \in 1..19

\* For GLSL the first binding of the line is followed by = and by a
\* character that is not a space.
WellFormedBinding(sLine) ==
    With(Find(sLine, sGlslBindingKeyword), LAMBDA p :
        p # npos =>
            With(SkipUntil(sLine, p + Len(sGlslBindingKeyword), "="), LAMBDA e :
                e < Len(sLine) /\ SkipSpaces(sLine, e + 1) < Len(sLine)))

\* For HLSL the first register( of the line is followed by a type
\* character and the digits of an index, and a space keyword before the
\* closing bracket by digits as well.
WellFormedRegister(sLine) ==
    With(Find(sLine, sHlslBindingKeyword), LAMBDA p :
        p # npos =>
            With(SkipSpaces(sLine, p + Len(sHlslBindingKeyword)), LAMBDA t :
            With(SkipSpaces(sLine, t + 1), LAMBDA i :
                /\ t < Len(sLine)
                /\ i < Len(sLine)
                /\ NumberAt(sLine, i)
                /\ With(FindFrom(sLine, sHlslRegisterSpaceKeyword, i), LAMBDA s :
                       (s # npos /\ s < FindFrom(sLine, <<")">>, i)) =>
                           NumberAt(sLine, s + Len(sHlslRegisterSpaceKeyword))))))

WellFormedIndices(lines) ==
    \A i \in 1..Len(lines) :
        IF bParseAsHlsl THEN WellFormedRegister(lines[i]) ELSE WellFormedBinding(lines[i])

\* C16 as amended: the round trip of a resolved document of the target
\* language whose binding and register keywords are well formed.
C16_RoundTripOfWellFormedDocument ==
    (ParsedDocument /\ WellFormedIndices(SourceLines)) => ReturnedAsWritten

\* parseGlsl of a resolved document of two lines, each with a hardcoded
\* binding index, returns the two lines.
C16_ResolvedDocumentReturned ==
    /\ Succeeded
    /\ ~bParseAsHlsl
    /\ SourceLines = BindingOne \o BindingTwo
    /\ WellFormedIndices(SourceLines)
    /\ ParsedDocument
    /\ ReturnedAsWritten

\* ---------------------------------------------------------------------
\* What the call returns

\* C17: no exception crosses the public boundary.  Whatever the file
\* holds, parseHlsl and parseGlsl end by returning the text or an Error.
C17_NoExceptionEscapes ==
    pc = "done" => result.kind \in {"text", "error"}

\* The call for the line #glsl G #hlsl ends by the std::out_of_range of
\* substr, thrown for the section that starts past the end of the line.
C17_FailingInput ==
    /\ pc = "done"
    /\ SourceLines = MarkerAtEndFile
    /\ result = Exception

\* The file in which the step that returns an Error has found the fault:
\* the file given to the call before parsing and in finalizing, and while
\* parsing the file of the innermost parseFile or, for a file included
\* that cannot be opened, that file.
FaultFiles ==
    IF pc = "parse"
    THEN {Top.path}
         \cup (IF AtLine /\ IsIncludeLine(CurrentLine)
                     /\ Existing(Top.path, IncludedName(CurrentLine)) # {}
               THEN {Resolved(Top.path, IncludedName(CurrentLine))}
               ELSE {})
    ELSE {pathToShaderSourceFile}

\* C18: error origin.  Every Error the call returns has as its
\* pathToErrorFile the path of the file in which the fault was detected:
\* the included file for a fault inside it, the including file for an
\* include that is not found, the root file for a fault found in
\* finalizing.
C18_ErrorOrigin ==
    [][(pc # "done" /\ result'.kind = "error") => result'.path \in FaultFiles]_vars

\* parseHlsl of a line of root constants and the push constants layout:
\* the Error for the missing struct holds the merged text, the two lines
\* of the layout, where the path belongs.
C18_FailingInput ==
    /\ pc = "done"
    /\ bParseAsHlsl
    /\ SourceLines = RootConstantsSingle \o PushConstantsLayout
    /\ result.kind = "error"
    /\ result.msg = "initial push constants layout was not found"
    /\ result.path = <<"", Joined(PushConstantsLayout)>>
    /\ result.path # pathToShaderSourceFile

\* ---------------------------------------------------------------------
\* Termination

\* The files the file F includes: what its include lines resolve to.
IncludedFiles(F) ==
    IF F \notin DOMAIN fs THEN {}
    ELSE {Resolved(F, IncludedName(fs[F].lines[i])) :
             i \in {j \in 1..Len(fs[F].lines) :
                        /\ IsIncludeLine(fs[F].lines[j])
                        /\ Existing(F, IncludedName(fs[F].lines[j])) # {}}}

\* F includes G, directly or through at most n files.
RECURSIVE Includes(_, _, _)
Includes(F, G, n) ==
    /\ n > 0
    /\ \/ G \in IncludedFiles(F)
       \/ \E H \in IncludedFiles(F) : Includes(H, G, n - 1)

\* The file includes itself, directly or through other files.
IncludesItself(F) == Includes(F, F, Cardinality(DOMAIN fs))

\* No file of the file system includes itself.
AcyclicIncludeGraph == \A F \in DOMAIN fs : ~IncludesItself(F)

\* parseFile has called itself for a file it is parsing already.
InCycle == \E i, j \in 1..Len(stack) : i < j /\ stack[i].path = stack[j].path

\* parseFile calls itself for a file that it is parsing already, as for
\* any other file: nothing looks for a cycle.
RecursesIntoCycle ==
    (AtLine /\ IsIncludeLine(CurrentLine)
         /\ Existing(Top.path, IncludedName(CurrentLine)) # {}
         /\ \E i \in 1..Len(stack) :
                stack[i].path = Resolved(Top.path, IncludedName(CurrentLine))) =>
        /\ pc' = "parse"
        /\ Len(stack') = Len(stack) + 1
        /\ stack'[Len(stack')] = NewFrame(Resolved(Top.path, IncludedName(CurrentLine)))

\* The calls of parseFile in progress are for files that differ, and each
\* has read no more than its file holds.
WithinTheFiles ==
    /\ ~InCycle
    /\ \A k \in 1..Len(stack) : stack[k].pos \in 1..(Len(fs[stack[k].path].lines) + 1)

\* The positions of the calls in progress, outermost first, a call that
\* has returned counting as past every position, go up in the order of
\* the dictionary.
PositionsIncrease ==
    \E k \in 1..Len(stack) :
        /\ \A j \in 1..(k - 1) : j <= Len(stack') /\ stack'[j].pos = stack[j].pos
        /\ k > Len(stack') \/ stack'[k].pos > stack[k].pos

\* A step goes on towards the end of the call: before parsing to parsing
\* or to the end, in parsing to greater positions, and from finalizing to
\* the end.  It leaves the calls in progress within their files and fewer
\* than the model allows, so that the call has a next step until it ends.
StepTowardsEnd ==
    /\ pc = "start" => pc' \in {"parse", "done"}
    /\ pc = "parse" => pc' \in {"parse", "finalize", "done"} /\ PositionsIncrease
    /\ pc = "finalize" => pc' = "done"
    /\ pc # "done"
    /\ WithinTheFiles'
    /\ Len(stack') < MaxDepth

\* C19: termination and cycles.  With an acyclic include graph the call
\* ends, with the text or an Error: every step takes the calls in
\* progress, which are for files that differ, to greater positions within
\* their files, and the result is the text or an Error.  For a source
\* file that includes itself parseFile calls itself again each time it
\* reaches the include, one call deeper each time, and the call never
\* returns, an Error or anything else.
C19_TerminationAndCycles ==
    [][/\ AcyclicIncludeGraph =>
              /\ StepTowardsEnd
              /\ pc' = "done" => result'.kind \in {"text", "error"}
       /\ IncludesItself(pathToShaderSourceFile) => pc' # "done"
       /\ RecursesIntoCycle]_vars

\* Without a cycle among the includes, parseGlsl of the line
\* #glsl G #hlsl has ended, and neither with text nor with an Error.
C19_FailingInput ==
    /\ pc = "done"
    /\ AcyclicIncludeGraph
    /\ ~bParseAsHlsl
    /\ SourceLines = MarkerAtEndFile
    /\ result.kind = "exception"

\* ---------------------------------------------------------------------
\* The forms of a keyword line

BlockKeywords ==
    {sGlslKeyword, sHlslKeyword, sAdditionalShaderConstantsKeyword,
     sAdditionalRootConstantsKeyword, sAdditionalPushConstantsKeyword}

\* The innermost parseFile is about to read a line that starts with the
\* keyword and holds no other keyword.
AtKeywordLine(sKeyword) ==
    /\ AtLine
    /\ StartsWith(CurrentLine, sKeyword)
    /\ FindFrom(CurrentLine, <<"#">>, 1) = npos

\* The opening brackets of the line less its closing brackets.
NetBrackets(sLine) ==
    Cardinality(Occurrences(sLine, <<"{">>)) - Cardinality(Occurrences(sLine, <<"}">>))

\* The brackets left open by the lines i to j.
RECURSIVE OpenBrackets(_, _, _)
OpenBrackets(lines, i, j) ==
    IF i > j THEN 0 ELSE NetBrackets(lines[i]) + OpenBrackets(lines, i + 1, j)

\* The lines that end a block whose body starts at line first: those that
\* close a bracket which the body before them has not opened.
Terminators(lines, first) ==
    {t \in first..Len(lines) :
        /\ NetBrackets(lines[t]) < 0
        /\ \A u \in first..t : OpenBrackets(lines, first, u - 1) >= 0
        /\ OpenBrackets(lines, first, t - 1) = 0}

\* The body from line first on is handed to the handler line by line, up
\* to the first line that ends the block, and that line is the last read.
BodyHandedOver(k, lines, first) ==
    Terminators(lines, first) # {} =>
        With(CHOOSE t \in Terminators(lines, first) :
                 \A u \in Terminators(lines, first) : t <= u, LAMBDA t :
            /\ k.err = NoError
            /\ k.texts = SubSeq(lines, first, t - 1)
            /\ k.next = t + 1)

\* What the forms of the line require of the call of processKeywordCode
\* for the keyword: p is where the code after the keyword and its spaces
\* starts.
KeywordForm(sKeyword, k, lines, p) ==
    /\ (p > Len(sKeyword) /\ p < Len(CurrentLine) /\ At(CurrentLine, p) # "{") =>
           /\ k.err = NoError
           /\ k.texts = <<SubSeq(CurrentLine, p + 1, Len(CurrentLine))>>
           /\ k.next = Top.pos + 1
    /\ (p < Len(CurrentLine) /\ At(CurrentLine, p) = "{") =>
           BodyHandedOver(k, lines, Top.pos + 1)
    /\ (p >= Len(CurrentLine) /\ Top.pos < Len(lines)
            /\ StartsWith(lines[Top.pos + 1], <<"{">>)) =>
           BodyHandedOver(k, lines, Top.pos + 2)

\* C20: keyword forms.  For a line that is a keyword, a space and code of
\* one character or more that does not start with an opening bracket, the
\* handler is called once, with the code, and no further line is read.
\* For a keyword followed by an opening bracket, on its line or at the
\* start of the next line, the handler is called with each line of the
\* body, in order, up to the closing bracket that ends the block.
C20_KeywordForms ==
    \A sKeyword \in BlockKeywords :
        AtKeywordLine(sKeyword) =>
            KeywordForm(sKeyword,
                        processKeywordCode(<<sKeyword>>, CurrentLine, fs[Top.path].lines,
                                           Top.pos + 1),
                        fs[Top.path].lines,
                        SkipSpaces(CurrentLine, Len(sKeyword)))

\* For the line #glsl G, followed by a line of literal code, the call
\* returns the Error that a curly bracket was expected.
C20_FailingInput ==
    /\ pc = "done"
    /\ SourceLines = OneCharacterCodeFile
    /\ result = Error("expected to find a curly bracket", RootPath)

\* ---------------------------------------------------------------------
\* The end of a block

\* The block whose body starts at line first ends at the first line that
\* closes a bracket the body has not opened, and the line after it is the
\* next one read; a file without such a line gives an Error.
BlockEnds(k, lines, first) ==
    IF Terminators(lines, first) = {} THEN k.err # NoError
    ELSE With(CHOOSE t \in Terminators(lines, first) :
                  \A u \in Terminators(lines, first) : t <= u, LAMBDA t :
             /\ k.err = NoError
             /\ k.next = t + 1
             /\ k.sLineBuffer = lines[t])

\* The end of the block of the keyword line about to be read: p is where
\* the text after the keyword and its spaces starts.
BlockOf(k, lines, p) ==
    /\ (p < Len(CurrentLine) /\ At(CurrentLine, p) = "{") =>
           BlockEnds(k, lines, Top.pos + 1)
    /\ (p >= Len(CurrentLine) /\ Top.pos < Len(lines)
            /\ StartsWith(lines[Top.pos + 1], <<"{">>)) =>
           BlockEnds(k, lines, Top.pos + 2)

\* C21: block termination by brace nesting.  For a keyword followed by an
\* opening bracket, on its line or at the start of the next line, the
\* block ends at the line with the closing bracket that balances the
\* opening one, every opening bracket of a body line counted up and every
\* closing bracket counted down, also when one line holds both; the line
\* after it is the next one parseFile reads, and a file that ends before
\* that line gives an Error.
C21_BlockTermination ==
    \A sKeyword \in BlockKeywords :
        AtKeywordLine(sKeyword) =>
            BlockOf(processKeywordCode(<<sKeyword>>, CurrentLine, fs[Top.path].lines,
                                       Top.pos + 1),
                    fs[Top.path].lines,
                    SkipSpaces(CurrentLine, Len(sKeyword)))

\* The file is a GLSL block whose body line holds both brackets and the
\* closing bracket of the block: the call returns the Error of a file that
\* ended inside the block.
C21_FailingInput ==
    /\ pc = "done"
    /\ SourceLines = GlslBlockUnit
    /\ result = Error("reached unexpected end of file while processing keyword", RootPath)

\* ---------------------------------------------------------------------
\* The segments of a mixed line

\* Where the keywords of a mixed line start.
MarkerPositions(sLine) ==
    {Find(sLine, kw) : kw \in {sHlslKeyword, sGlslKeyword, sBothKeyword}} \ {npos}

\* The keyword that starts at position p of the line.
MarkerAt(sLine, p) ==
    CHOOSE kw \in {sHlslKeyword, sGlslKeyword, sBothKeyword} : MatchAt(sLine, kw, p)

\* Where the segment of the keyword at p ends: at the next keyword or at
\* the end of the line.
SegmentEnd(sLine, p) ==
    IF \E q \in MarkerPositions(sLine) : q > p
    THEN CHOOSE q \in MarkerPositions(sLine) :
             q > p /\ \A r \in MarkerPositions(sLine) : r > p => q <= r
    ELSE Len(sLine)

\* The characters of the segment the keyword at p owns: those after the
\* keyword and the space that follows it.  None or less when the next
\* keyword, or the end of the line, comes right after the keyword or
\* after one space.
SegmentLength(sLine, p) ==
    SegmentEnd(sLine, p) - (p + Len(MarkerAt(sLine, p)) + 1)

\* C22: empty segment on a mixed line.  When a line that holds #hlsl and
\* #glsl has a keyword whose segment has fewer than one character (the
\* next keyword right after it, one space and then the next keyword, or
\* the keyword at the very end of the line), parseHlsl and parseGlsl
\* return an Error.
C22_EmptySegmentIsError ==
    [][(AtMixedLine
           /\ \E p \in MarkerPositions(CurrentLine) : SegmentLength(CurrentLine, p) < 1) =>
          (pc' = "done" /\ result'.kind = "error")]_vars

\* parseGlsl of the line #glsl#hlsl c returns text: the characters after
\* the first keyword, taken as its segment.
C22_FailingInput ==
    /\ Succeeded
    /\ ~bParseAsHlsl
    /\ SourceLines = AdjacentMarkersFile
    /\ result.text = <<"h","l","s","l"," ","c","\n">>

\* The segment the keyword at p owns, as written.
Segment(sLine, p) ==
    SubSeq(sLine, p + Len(MarkerAt(sLine, p)) + 2, SegmentEnd(sLine, p))

\* The positions of ps in rising order.
RECURSIVE Rising(_)
Rising(ps) ==
    IF ps = {} THEN <<>>
    ELSE With(CHOOSE p \in ps : \A q \in ps : p <= q, LAMBDA p :
         <<p>> \o Rising(ps \ {p}))

\* The segments of the keywords at ps, in order, that are for both
\* languages or for the target language.
RECURSIVE SegmentsForTarget(_, _)
SegmentsForTarget(sLine, ps) ==
    IF ps = <<>> THEN <<>>
    ELSE (IF MarkerAt(sLine, Head(ps))
                 \in {sBothKeyword, IF bParseAsHlsl THEN sHlslKeyword ELSE sGlslKeyword}
          THEN Segment(sLine, Head(ps))
          ELSE <<>>)
         \o SegmentsForTarget(sLine, Tail(ps))

\* What a mixed line gives: the text before its first keyword, the
\* segments for the target and one newline.
MixedLineText(sLine) ==
    SubSeq(sLine, 1, Rising(MarkerPositions(sLine))[1])
        \o SegmentsForTarget(sLine, Rising(MarkerPositions(sLine)))
        \o NewLine

\* A line with #hlsl and #glsl once each, #both once at most and a
\* character or more in every segment.
DispatchedLine(sLine) ==
    /\ \A kw \in {sHlslKeyword, sGlslKeyword} : Cardinality(Occurrences(sLine, kw)) = 1
    /\ Cardinality(Occurrences(sLine, sBothKeyword)) <= 1
    /\ \A p \in MarkerPositions(sLine) : SegmentLength(sLine, p) >= 1

\* C23: mixed-line dispatch.  For a line with #hlsl and #glsl once each,
\* #both once at most and no empty segment, what parseFile appends is the
\* text before the first keyword, then, from left to right, every segment
\* of #both and of the target language, nothing of the other language, and
\* one newline; the step reads no other line, and it ends the parse only
\* by the Error of a binding or register found in a segment of the target.
C23_MixedLineDispatch ==
    [][(AtMixedLine /\ DispatchedLine(CurrentLine)) =>
          /\ StepOverLines =>
                 /\ Appended = MixedLineText(CurrentLine)
                 /\ stack'[Len(stack)].pos = Top.pos + 1
          /\ ~StepOverLines =>
                 /\ result'.kind = "error"
                 /\ \/ Contains(CurrentLine, sGlslBindingKeyword)
                    \/ Contains(CurrentLine, sHlslBindingKeyword)]_vars

\* parseGlsl of the line x #glsl G #both b #hlsl H returns x G b and a
\* newline.
C23_TextBeforeAndBoth ==
    /\ Succeeded
    /\ ~bParseAsHlsl
    /\ SourceLines = <<<<"x"," ","#","g","l","s","l"," ","G"," ","#","b","o","t","h"," ","b"," ","#","h","l","s","l"," ","H">>>>
    /\ result.text = <<"x"," ","G"," ","b"," ","\n">>

\* ---------------------------------------------------------------------
\* Registration of hardcoded indices

\* The index of the declaration d is in the set of used indices of its
\* namespace.
Registered(d) ==
    IF bParseAsHlsl THEN d.index \in UsedHlsl(bindingIndicesInfo, d.ns[1], d.ns[2])
    ELSE d.index \in bindingIndicesInfo.usedGlslIndices

\* C24: registration invariant.  When runParsing is about to finalize,
\* every hardcoded index of a binding (GLSL) or register (HLSL)
\* declaration in the text parseFile returned is in usedGlslIndices, or in
\* usedHlslIndices of the declaration's register type and space: whatever
\* file of the include tree the declaration came from, also for a second
\* declaration of a line, for one after a wildcard on its line and for one
\* in the text before the keywords or in the #both section of a mixed line.
C24_RegistrationInvariant ==
    pc = "finalize" =>
        \A i \in Hardcoded(Before) : Before[i].index >= 0 => Registered(Before[i])

\* parseGlsl of the line binding=0;binding=1 is about to finalize with
\* index 0 alone in usedGlslIndices.
C24_FailingInput ==
    /\ pc = "finalize"
    /\ ~bParseAsHlsl
    /\ SourceLines = BindingZeroThenOne
    /\ Indices(Before) = <<0, 1>>
    /\ bindingIndicesInfo.usedGlslIndices = {0}

\* ---------------------------------------------------------------------
\* Declarations that are not well formed

\* A digit or the wildcard stands at position v of the line.
IndexOrWildcardAt(sLine, v) ==
    v < Len(sLine) /\ (IsDigit(At(sLine, v)) \/ At(sLine, v) = assignBindingIndexCharacter)

\* The binding keyword at position p of the line has no = after it, or
\* what follows the = and its spaces is neither a number nor the wildcard.
MalformedBinding(sLine, p) ==
    With(SkipUntil(sLine, p + Len(sGlslBindingKeyword), "="), LAMBDA e :
        \/ e >= Len(sLine)
        \/ ~IndexOrWildcardAt(sLine, SkipSpaces(sLine, e + 1)))

\* The register keyword at position p of the line has no closing bracket
\* after it, or its index (what follows the register type) is neither a
\* number nor the wildcard, or its space, before the closing bracket, is
\* the wildcard.
MalformedRegister(sLine, p) ==
    With(FindFrom(sLine, <<")">>, p), LAMBDA c :
        \/ c = npos
        \/ ~IndexOrWildcardAt(sLine,
               SkipSpaces(sLine, SkipSpaces(sLine, p + Len(sHlslBindingKeyword)) + 1))
        \/ \E q \in Occurrences(sLine, sHlslRegisterSpaceKeyword \o <<assignBindingIndexCharacter>>) :
               p < q /\ q < c)

\* The line holds a declaration of the target language that is not well
\* formed.
Malformed(sLine) ==
    IF bParseAsHlsl
    THEN \E p \in Occurrences(sLine, sHlslBindingKeyword) : MalformedRegister(sLine, p)
    ELSE \E p \in Occurrences(sLine, sGlslBindingKeyword) : MalformedBinding(sLine, p)

\* C25: malformed binding/register syntax is an Error.  parseGlsl returns
\* no text with a line that holds binding without = after it or with a
\* value that is neither a number nor `?`; parseHlsl returns no text with a
\* line that holds register( without a closing bracket, with an index that
\* is neither a number nor `?`, or with the wildcard space?: the call
\* returns an Error.
C25_MalformedSyntaxIsError ==
    pc = "done" =>
        \/ result.kind = "error"
        \/ /\ \A i \in 1..Len(SplitLines(sFullParsedSourceCode)) :
                  ~Malformed(SplitLines(sFullParsedSourceCode)[i])
           /\ \A i \in 1..Len(SplitLines(result.text)) :
                  ~Malformed(SplitLines(result.text)[i])

\* parseGlsl of the line binding=x returns the line.
C25_FailingInput ==
    /\ Succeeded
    /\ ~bParseAsHlsl
    /\ SourceLines = <<<<"b","i","n","d","i","n","g","=","x">>>>
    /\ result.text = <<"b","i","n","d","i","n","g","=","x","\n">>

\* ---------------------------------------------------------------------
\* Conversion of whole tokens

\* The characters an identifier is made of.
IdentifierCharacters ==
    {"a","b","c","d","e","f","g","h","i","j","k","l","m","n","o","p","q","r","s","t","u",
     "v","w","x","y","z","A","B","C","D","E","F","G","H","I","J","K","L","M","N","O","P",
     "Q","R","S","T","U","V","W","X","Y","Z","0","1","2","3","4","5","6","7","8","9","_"}

\* sPart stands at position i of the text as a whole token: no character of
\* an identifier comes right before it or right after it.
TokenAt(sText, sPart, i) ==
    /\ MatchAt(sText, sPart, i)
    /\ i > 0 => At(sText, i - 1) \notin IdentifierCharacters
    /\ i + Len(sPart) < Len(sText) => At(sText, i + Len(sPart)) \notin IdentifierCharacters

\* The text from position i on, with every type of GLSL that stands as a
\* whole token replaced by its type of HLSL and all else kept.
RECURSIVE TokensReplaced(_, _)
TokensReplaced(sText, i) ==
    IF i >= Len(sText) THEN <<>>
    ELSE IF \E k \in 1..Len(GlslTypes) : TokenAt(sText, GlslTypes[k], i)
    THEN With(CHOOSE k \in 1..Len(GlslTypes) : TokenAt(sText, GlslTypes[k], i), LAMBDA k :
         HlslTypes[k] \o TokensReplaced(sText, i + Len(GlslTypes[k])))
    ELSE <<At(sText, i)>> \o TokensReplaced(sText, i + 1)

\* C26: token-boundary-aware conversion.  For a line of literal code
\* parseHlsl appends the line with the types vec2/3/4 and mat2/3/4 replaced
\* where they stand as whole tokens, and every other character as written:
\* an identifier that holds the name of a type (ivec3, myvec2, format4) is
\* not changed.
C26_TokenBoundaryConversion ==
    [][(StepOverLines /\ bParseAsHlsl /\ ~Contains(CurrentLine, <<"#">>)
            /\ ~Contains(CurrentLine, sSharedKeyword)) =>
          Appended = TokensReplaced(CurrentLine, 0) \o NewLine]_vars

\* parseHlsl of the line ivec3 myvec2 format4 returns
\* ifloat3 myfloat2 forfloat4x4.
C26_FailingInput ==
    /\ Succeeded
    /\ bParseAsHlsl
    /\ SourceLines = <<<<"i","v","e","c","3"," ","m","y","v","e","c","2"," ","f","o","r","m","a","t","4">>>>
    /\ result.text = <<"i","f","l","o","a","t","3"," ","m","y","f","l","o","a","t","2"," ","f","o","r","f","l","o","a","t","4","x","4","\n">>

\* ---------------------------------------------------------------------
\* The order of finalizing

\* finalizeParsingResults is called once the outermost parseFile has read
\* its whole file, no parseFile being in progress any more, and only then;
\* text is returned by that call alone, and after it nothing else is done.
FinalizedOnceAfterTraversal ==
    /\ (pc' = "finalize" /\ pc # "finalize") =>
           /\ AtEndOfFile
           /\ Len(stack) = 1
           /\ Top.path = pathToShaderSourceFile
           /\ stack' = <<>>
    /\ pc = "finalize" => pc' = "done"
    /\ pc = "done" => pc' = "done"
    /\ (result'.kind = "text" /\ result.kind # "text") => (pc = "finalize" /\ stack = <<>>)

\* The messages of the Errors of the injection of additional constants.
InjectionErrors ==
    {"initial push constants layout was not found",
     "expected to find a closing bracket after push constants definition"}

\* The allocation of indices over the text cannot succeed: a wildcard was
\* found, and the text holds a binding without any = after it (GLSL), or
\* its first register has the wildcard as index and as space (HLSL).
AllocationFails(sText) ==
    /\ bindingIndicesInfo.bFoundBindingIndicesToAssign
    /\ IF bParseAsHlsl
       THEN With(findHlslRegisterInfo(sText, 0), LAMBDA g :
                /\ g.found /\ g.err = NoError /\ g.hasSpace
                /\ CharAt(sText, g.indexPos) = assignBindingIndexCharacter
                /\ CharAt(sText, g.spacePos) = assignBindingIndexCharacter)
       ELSE \E p \in Occurrences(sText, sGlslBindingKeyword) :
                SkipUntil(sText, p + Len(sGlslBindingKeyword), "=") >= Len(sText)

\* The injection of the additional constants cannot succeed: entries were
\* buffered and the text has no anchor with a closing bracket after it.
InjectionFails(sText) ==
    vFoundAdditionalPushConstants # <<>> /\ InsertPosition(sText) = npos

\* C27 as stated: finalize ordering.  The finalize step runs once, after
\* the traversal of the root file and of every included file, never inside
\* a recursive parseFile; and within it the additional constants are
\* injected after the wildcard indices are allocated, so that a text whose
\* allocation fails ends the call with the Error of the allocation, the
\* injection not being reached.
C27_FinalizeOrdering ==
    [][/\ FinalizedOnceAfterTraversal
       /\ (pc = "finalize" /\ AllocationFails(sFullParsedSourceCode)) =>
              (result'.kind = "error" /\ result'.msg \notin InjectionErrors)]_vars

\* C27 amended: the same, with the additional constants injected before
\* the wildcard indices are allocated: a text whose injection fails ends
\* the call with the Error of the injection, whatever the allocation would
\* give, and the Error of a failing allocation is returned only when the
\* injection has not failed.
C27_InjectionBeforeAllocation ==
    [][/\ FinalizedOnceAfterTraversal
       /\ (pc = "finalize" /\ InjectionFails(sFullParsedSourceCode)) =>
              (result'.kind = "error" /\ result'.msg \in InjectionErrors)
       /\ (pc = "finalize" /\ ~InjectionFails(sFullParsedSourceCode)
               /\ AllocationFails(sFullParsedSourceCode)) =>
              (result'.kind = "error" /\ result'.msg \notin InjectionErrors)]_vars

\* parseGlsl of a line of shader constants and the line binding=?;binding,
\* without a push constants layout: the injection and the allocation both
\* fail, and the call returns the Error of the injection.
C27_InjectionErrorFirst ==
    /\ pc = "done"
    /\ ~bParseAsHlsl
    /\ SourceLines = ShaderConstantsSingle \o <<<<"b","i","n","d","i","n","g","=","?",";","b","i","n","d","i","n","g">>>>
    /\ bindingIndicesInfo.bFoundBindingIndicesToAssign
    /\ result.kind = "error"
    /\ result.msg = "initial push constants layout was not found"

\* ---------------------------------------------------------------------
\* The closing bracket of a block

\* What parseFile appends for the body lines of a block of the keyword:
\* the lines, each with a newline, for the keyword of the target language,
\* and nothing for the other language and for the additional constants.
BodyText(sKeyword, body) ==
    IF sKeyword = (IF bParseAsHlsl THEN sHlslKeyword ELSE sGlslKeyword) THEN Joined(body)
    ELSE <<>>

\* The step over the block whose body starts at line first, if it stays in
\* the parse, reads up to the line that ends the block and appends the
\* text of the body lines before it, nothing of that line.
BlockConsumed(sKeyword, lines, first) ==
    (StepOverLines /\ Terminators(lines, first) # {}) =>
        With(CHOOSE t \in Terminators(lines, first) :
                 \A u \in Terminators(lines, first) : t <= u, LAMBDA t :
            /\ stack'[Len(stack)].pos = t + 1
            /\ Appended = BodyText(sKeyword, SubSeq(lines, first, t - 1)))

\* The block of the keyword line about to be read: p is where the text
\* after the keyword and its spaces starts.
BlockDelimitersKept(sKeyword, lines, p) ==
    /\ (p < Len(CurrentLine) /\ At(CurrentLine, p) = "{") =>
           BlockConsumed(sKeyword, lines, Top.pos + 1)
    /\ (p >= Len(CurrentLine) /\ Top.pos < Len(lines)
            /\ StartsWith(lines[Top.pos + 1], <<"{">>)) =>
           BlockConsumed(sKeyword, lines, Top.pos + 2)

\* C28: block delimiters never leak.  For #glsl, #hlsl and the keywords of
\* the additional constants followed by an opening bracket, on the keyword
\* line or on the next line, the step of parseFile reads the lines up to
\* the one with the closing bracket that ends the block and appends
\* nothing for that line, only what the body lines give for the target;
\* this for both targets, and also for a block without body lines.
C28_BlockDelimitersNeverLeak ==
    [][\A sKeyword \in BlockKeywords :
           AtKeywordLine(sKeyword) =>
               BlockDelimitersKept(sKeyword, fs[Top.path].lines,
                                   SkipSpaces(CurrentLine, Len(sKeyword)))]_vars

\* The file is a GLSL block without body lines: parseGlsl and parseHlsl
\* return the line of the closing bracket.
C28_FailingInput ==
    /\ Succeeded
    /\ SourceLines = EmptyBlockUnit
    /\ result.text = <<"}","\n">>

\* ---------------------------------------------------------------------
\* Wildcards left in the text

\* C29: every wildcard is resolved.  The text a successful parseGlsl
\* returns holds no binding declaration whose value is the wildcard, and
\* the text a successful parseHlsl returns no register declaration whose
\* index is the wildcard: each wildcard has become a decimal index, also
\* one that is not the first declaration of its line and one in the text
\* before the keywords or in the #both section of a mixed line.
C29_EveryWildcardResolved ==
    Succeeded =>
        \A i \in 1..Len(After) : After[i].index # -1

\* parseGlsl of the mixed line #glsl G #hlsl H #both binding=? returns the
\* binding with its wildcard.
C29_FailingInput ==
    /\ Succeeded
    /\ ~bParseAsHlsl
    /\ SourceLines = <<<<"#","g","l","s","l"," ","G"," ","#","h","l","s","l"," ","H"," ","#","b","o","t","h"," ","b","i","n","d","i","n","g","=","?">>>>
    /\ ~bindingIndicesInfo.bFoundBindingIndicesToAssign
    /\ result.text = <<"G"," ","b","i","n","d","i","n","g","=","?","\n">>

\* ---------------------------------------------------------------------
\* Replacement of a part of a text

\* The text from position i on as a scan from left to right replaces it:
\* where sReplaceFrom stands, sReplaceTo is written and the scan goes on
\* behind the occurrence in the text as it was; every other character is
\* kept.
RECURSIVE OccurrencesReplaced(_, _, _, _)
OccurrencesReplaced(sText, sReplaceFrom, sReplaceTo, i) ==
    IF i >= Len(sText) THEN <<>>
    ELSE IF MatchAt(sText, sReplaceFrom, i)
    THEN sReplaceTo \o OccurrencesReplaced(sText, sReplaceFrom, sReplaceTo, i + Len(sReplaceFrom))
    ELSE <<At(sText, i)>> \o OccurrencesReplaced(sText, sReplaceFrom, sReplaceTo, i + 1)

\* The replacements the parser asks for, and three more: a replacement that
\* holds its pattern twice, an empty replacement, and a pattern whose
\* occurrences overlap in aaa, replaced by its first half.
Replacements ==
    {<<GlslTypes[k], HlslTypes[k]>> : k \in 1..Len(GlslTypes)}
        \cup {<<sSharedKeyword, <<"g","r","o","u","p">> \o sSharedKeyword>>,
              <<<<"s">>, <<"s","s">>>>,
              <<<<"e","c">>, <<>>>>,
              <<<<"a","a">>, <<"a">>>>}

\* The types of a line replaced one after the other from position k of
\* GlslTypes on, each by a scan from left to right.
RECURSIVE TypesReplacedInOrder(_, _)
TypesReplacedInOrder(sText, k) ==
    IF k > Len(GlslTypes) THEN sText
    ELSE TypesReplacedInOrder(OccurrencesReplaced(sText, GlslTypes[k], HlslTypes[k], 0), k + 1)

\* The line with its types replaced and then, if it starts with the
\* keyword shared, each shared of it made a groupshared.
ReplacedForHlsl(sText) ==
    With(TypesReplacedInOrder(sText, 1), LAMBDA t :
    IF StartsWith(t, sSharedKeyword)
    THEN OccurrencesReplaced(t, sSharedKeyword, <<"g","r","o","u","p">> \o sSharedKeyword, 0)
    ELSE t)

\* C30: replaceSubstring ends for every text and every pattern that is not
\* empty, and what it leaves is the text with each occurrence of the
\* pattern that a scan from left to right meets, none overlapping the one
\* before it, replaced once: the replacement written is not scanned again,
\* also when it holds the pattern (shared to groupshared), and the text
\* outside the occurrences is as it was.  So is every line of literal code
\* that parseHlsl appends, which is made by such replacements alone.
C30_LeftToRightReplacement ==
    [][(StepOverLines /\ bParseAsHlsl /\ ~Contains(CurrentLine, <<"#">>)) =>
          /\ \A r \in Replacements :
                replaceSubstring(CurrentLine, r[1], r[2])
                    = OccurrencesReplaced(CurrentLine, r[1], r[2], 0)
          /\ Appended = ReplacedForHlsl(CurrentLine) \o NewLine]_vars

\* parseHlsl of the line shared shared vec2 vec2 returns
\* groupshared groupshared float2 float2.
C30_EachOccurrenceOnce ==
    /\ Succeeded
    /\ bParseAsHlsl
    /\ SourceLines = <<<<"s","h","a","r","e","d"," ","s","h","a","r","e","d"," ","v","e","c","2"," ","v","e","c","2">>>>
    /\ result.text = <<"g","r","o","u","p","s","h","a","r","e","d"," ","g","r","o","u","p","s","h","a","r","e","d"," ","f","l","o","a","t","2"," ","f","l","o","a","t","2","\n">>

====
